---------------------------- MODULE Spec2Model ----------------------------
(***************************************************************************)
(* Model of the hybrid search service of app/main.py: the per-table FAISS  *)
(* index registry (faiss_managers), the index files under indexes/, the    *)
(* MySQL store read through DatabaseConnector, and the request handlers    *)
(* search_items, add_to_index, reindex_table and reindex_tables.           *)
(*                                                                         *)
(* Strings that come from the store are TLA+ strings.  Strings that come   *)
(* from the wire (query text, filter string) are sequences of lexemes: a   *)
(* lexeme is a word, a one-character separator or one blank, so that       *)
(* lower(), strip() and split() act on them as they do in Python.          *)
(***************************************************************************)
EXTENDS Integers, Sequences, FiniteSets, TLC

VARIABLES
    store,           \* table name -> set of rows (dicts with a unique "id")
    faiss_managers,  \* app/main.py:95: table name -> IndexIDMap content
    files,           \* indexes/<table>.index: table name -> what the file holds
    up,              \* TRUE once the module-level startup loop has run
    response,        \* what the last request did and returned
    loop             \* the event loop: the requests in flight and the one running

vars == <<store, faiss_managers, files, up, response, loop>>

---------------------------------------------------------------------------
(* Bounds of the model.                                                    *)

\* Row ids are 1..MaxId.
MaxId == 2
\* The `top` parameter of a search ranges over 1..MaxTop.
MaxTop == 2
\* An index file found at the first startup holds at most MaxFileEntries entries.
MaxFileEntries == 2

Ids == 1..MaxId

\* Python's None.
NULL == "<None>"

---------------------------------------------------------------------------
(* app/config.py: the table schema registry.                               *)

FilterConfig(column, filter_type, data_type, valid_enum_values) ==
    [column |-> column, filter_type |-> filter_type, data_type |-> data_type,
     valid_enum_values |-> valid_enum_values]

tables_to_index ==
    << [name |-> "usuarios", columns |-> <<"nome">>, hybrid |-> FALSE,
        filters |-> << FilterConfig("tipo_usuario", "in", "enum", <<>>),
                       FilterConfig("data_criacao", "range", "date", <<>>),
                       FilterConfig("status", "in", "enum", <<"ativo", "inativo">>) >>,
        latitude_column |-> NULL, longitude_column |-> NULL],
       [name |-> "itens", columns |-> <<"titulo", "descricao", "condicoes_uso">>,
        hybrid |-> TRUE,
        filters |-> << FilterConfig("categoria_id", "exact", "int", <<>>),
                       FilterConfig("categoria", "in", "string", <<>>),
                       FilterConfig("status", "in", "enum",
                                    <<"disponivel", "alugado", "manutencao">>),
                       FilterConfig("localizacao", "distance", "geo", <<>>),
                       FilterConfig("preco_diario", "range", "decimal", <<>>),
                       FilterConfig("usuario_id", "exact", "int", <<>>),
                       FilterConfig("created_at", "range", "date", <<>>) >>,
        latitude_column |-> "itens_latitude", longitude_column |-> "itens_longitude"] >>

Tables == { tables_to_index[i].name : i \in 1..Len(tables_to_index) }

\* Table names a request may carry: the configured ones and one with no schema.
TableNames == Tables \cup {"pedidos"}

\* Config.get_table_config raises when no table has the name.
HasConfig(table_name) == table_name \in Tables

get_table_config(table_name) ==
    LET i == CHOOSE j \in 1..Len(tables_to_index) :
                 /\ tables_to_index[j].name = table_name
                 /\ \A k \in 1..(j - 1) : tables_to_index[k].name # table_name
    IN  tables_to_index[i]

HybridTables == { t \in Tables : get_table_config(t).hybrid }

---------------------------------------------------------------------------
(* Sequence helpers.                                                       *)

Range(s) == { s[i] : i \in 1..Len(s) }

RECURSIVE SeqFilter(_, _)
\* The subsequence of s whose elements are in keep, order kept.
SeqFilter(s, keep) ==
    IF s = <<>> THEN <<>>
    ELSE IF Head(s) \in keep THEN <<Head(s)>> \o SeqFilter(Tail(s), keep)
         ELSE SeqFilter(Tail(s), keep)

Take(s, n) == SubSeq(s, 1, IF n < Len(s) THEN n ELSE Len(s))

Reverse(s) == [i \in 1..Len(s) |-> s[Len(s) + 1 - i]]

---------------------------------------------------------------------------
(* The store: rows the service reads.  Other applications write them.      *)

\* Rows a table may hold (without the id): text columns NULL or not, mixed
\* case, and the columns the filters name.
RowValues(t) ==
    IF t = "itens"
    THEN { [titulo |-> NULL, descricao |-> NULL, condicoes_uso |-> NULL,
            status |-> "disponivel", categoria_id |-> 1,
            embedding |-> NULL, created_at |-> "2024-01-01 00:00:00",
            updated_at |-> "2024-01-01 00:00:00", last_embedding_generated_at |-> NULL],
           [titulo |-> "Cam", descricao |-> NULL, condicoes_uso |-> NULL,
            status |-> "disponivel", categoria_id |-> 1,
            embedding |-> "[0.1]", created_at |-> "2024-01-01 00:00:00",
            updated_at |-> "2024-12-31 00:00:00",
            last_embedding_generated_at |-> "2024-12-31 00:00:00"],
           [titulo |-> NULL, descricao |-> "drill", condicoes_uso |-> "X",
            status |-> "alugado", categoria_id |-> 2,
            embedding |-> "[0.1]", created_at |-> "2024-01-01 00:00:00",
            updated_at |-> "2024-12-31 00:00:00",
            last_embedding_generated_at |-> "2024-12-31 00:00:00"] }
    ELSE { [nome |-> "Ana", status |-> "ativo",
            created_at |-> "2024-01-01 00:00:00", updated_at |-> "2024-01-01 00:00:00"],
           [nome |-> NULL, status |-> "inativo",
            created_at |-> "2024-01-01 00:00:00", updated_at |-> "2024-01-01 00:00:00"] }

Row(i, v) == [f \in {"id"} \cup DOMAIN v |-> IF f = "id" THEN i ELSE v[f]]

RowIds(rows) == { r.id : r \in rows }

\* The rows of a SELECT in the order the store returns them: ord is the
\* store's order over ids for this statement.
RECURSIVE InStoreOrder(_, _)
InStoreOrder(rows, ord) ==
    IF ord = <<>> THEN <<>>
    ELSE LET here == { r \in rows : r.id = Head(ord) }
         IN  (IF here = {} THEN <<>> ELSE << CHOOSE r \in here : TRUE >>)
             \o InStoreOrder(rows, Tail(ord))

\* DatabaseConnector.get_all_from_table: SELECT * FROM `table`.
get_all_from_table(table_name, ord) == InStoreOrder(store[table_name], ord)

\* A lookup whose statement lost its WHERE clause.
get_any_row(item_id, table_name, ord) == InStoreOrder(store[table_name], ord)

\* DatabaseConnector.get_with_id: SELECT * FROM `table` WHERE id = %s.
get_with_id(item_id, table_name, ord) ==
    InStoreOrder({ r \in store[table_name] : r.id = item_id }, ord)

---------------------------------------------------------------------------
(* app/faiss/faissManager.py: the vector index.  An IndexIDMap over an     *)
(* IndexFlatL2 is a sequence of (id, vector) entries in insertion order.   *)

\* str.lower() on the strings the store holds.
Lower(s) ==
    CASE s = "Cam" -> "cam"
      [] s = "Ana" -> "ana"
      [] s = "X"   -> "x"
      [] s = "Disponivel" -> "disponivel"
      [] OTHER     -> s

\* SentenceTransformer.encode: an opaque pure function of the text.  The model
\* embeds in one dimension, by the length of the text.
encode(text) == Len(text)

\* " ".join(parts)
RECURSIVE Join(_)
Join(parts) ==
    IF Len(parts) = 1 THEN parts[1]
    ELSE parts[1] \o " " \o Join(Tail(parts))

\* The loop over text_fields shared by add_from_list and add_or_update_item.
RECURSIVE texts_to_join(_, _)
texts_to_join(item, text_fields) ==
    IF text_fields = <<>> THEN <<>>
    ELSE LET field == Head(text_fields)
         IN  (IF field \in DOMAIN item /\ item[field] # NULL
              THEN << Lower(item[field]) >> ELSE <<>>)
             \o texts_to_join(item, Tail(text_fields))

\* Faiss_Manager._add_text: encode the lowercased text, add_with_ids.
add_text(index, text, item_id) ==
    Append(index, [id |-> item_id, vec |-> encode(Lower(text))])

\* Faiss_Manager.add_from_list: rows with no text are skipped.
RECURSIVE add_from_list(_, _, _)
add_from_list(index, list_items, text_fields) ==
    IF list_items = <<>> THEN index
    ELSE LET item  == Head(list_items)
             parts == texts_to_join(item, text_fields)
         IN  add_from_list(
                 IF parts = <<>> THEN index
                 ELSE add_text(index, Join(parts), item.id),
                 Tail(list_items), text_fields)

\* A removal that stops at the first entry carrying the id.
RECURSIVE remove_first_id(_, _)
remove_first_id(index, item_id) ==
    IF index = <<>> THEN <<>>
    ELSE IF Head(index).id = item_id THEN Tail(index)
         ELSE <<Head(index)>> \o remove_first_id(Tail(index), item_id)

\* IndexIDMap.remove_ids with an IDSelectorArray of one id: every entry
\* carrying the id goes, the others keep their order.
RECURSIVE remove_ids(_, _)
remove_ids(index, item_id) ==
    IF index = <<>> THEN <<>>
    ELSE IF Head(index).id = item_id THEN remove_ids(Tail(index), item_id)
         ELSE <<Head(index)>> \o remove_ids(Tail(index), item_id)

\* add_or_update_item raises ValueError when no text field has a value.
CanEmbed(item, text_fields) == texts_to_join(item, text_fields) # <<>>

\* An upsert that adds the new vector and removes nothing.
add_item_only(index, item, text_fields) ==
    Append(index, [id |-> item.id,
                   vec |-> encode(Lower(Join(texts_to_join(item, text_fields))))])

\* Faiss_Manager.add_or_update_item, when it does not raise.
add_or_update_item(index, item, text_fields) ==
    add_text(remove_ids(index, item.id), Join(texts_to_join(item, text_fields)),
             item.id)

\* An upsert that removes the old entry before it looks for text.
removed_then_raised(index, item) == remove_ids(index, item.id)

\* The index once add_or_update_item has raised its ValueError: the raise
\* comes before remove_ids.
index_when_raised(index, item) == index

IndexIds(index) == { index[i].id : i \in 1..Len(index) }

EntriesFor(index, item_id) ==
    Cardinality({ i \in 1..Len(index) : index[i].id = item_id })

---------------------------------------------------------------------------
(* app/main.py: init_index_for_table.                                      *)

FileExists(fs, table_name) == table_name \in DOMAIN fs

\* What faiss.write_index leaves at the path once it has returned.
Written(index) == [complete |-> TRUE, index |-> index]

\* A file faiss.read_index cannot read: its bytes are not a whole index.
Unreadable == [complete |-> FALSE, index |-> <<>>]

\* Faiss_Manager.save_to_file: faiss.write_index on the path itself.
save_to_file(fs, path, index) ==
    [t \in DOMAIN fs \cup {path} |-> IF t = path THEN Written(index) ELSE fs[t]]

\* Faiss_Manager.load_from_file: the index read, or {} when read_index raises.
load_from_file(fs, path) == IF fs[path].complete THEN { fs[path].index } ELSE {}

\* <<faiss_managers, files, raised>> after init_index_for_table: raised when
\* load_from_file raised, which nothing in init_index_for_table catches.
init_index_for_table(fms, fs, table_config, allow_load, ord) ==
    LET table_name == table_config.name
        load == FileExists(fs, table_name) /\ allow_load
        data == IF table_config.hybrid /\ ~load
                THEN get_all_from_table(table_name, ord) ELSE <<>>
        read == IF load THEN load_from_file(fs, table_name) ELSE {}
        fm   == IF load THEN CHOOSE index \in read : TRUE
                ELSE IF data # <<>>
                     THEN add_from_list(<<>>, data, table_config.columns)
                     ELSE <<>>
        saved == IF ~load /\ data # <<>>
                 THEN save_to_file(fs, table_name, fm)
                 ELSE fs
    IN  IF ~table_config.hybrid THEN << fms, fs, FALSE >>
        ELSE IF load /\ read = {} THEN << fms, fs, TRUE >>
        ELSE << [t \in DOMAIN fms \cup {table_name} |->
                    IF t = table_name THEN fm ELSE fms[t]], saved, FALSE >>

\* faiss_managers.pop(table_config.name, None)
Pop(fms, table_name) == [t \in DOMAIN fms \ {table_name} |-> fms[t]]

\* A rebuild that lets init_index_for_table load the file it finds.
reindex_from_file(fms, fs, table_config, ord) ==
    init_index_for_table(
        IF table_config.hybrid THEN [t \in DOMAIN fms \ {table_config.name} |-> fms[t]]
        ELSE fms,
        fs, table_config, TRUE, ord)

\* _reindex_table_internal, and the body of reindex_table after the lookup.
reindex_internal(fms, fs, table_config, ord) ==
    init_index_for_table(
        IF table_config.hybrid THEN Pop(fms, table_config.name) ELSE fms,
        fs, table_config, FALSE, ord)

\* The loop of reindex_tables, and with allow_load the module-level loop.
RECURSIVE ForEachTable(_, _, _, _, _)
ForEachTable(fms, fs, configs, allow_load, ord) ==
    IF configs = <<>> THEN << fms, fs, FALSE >>
    ELSE LET one == IF allow_load
                    THEN init_index_for_table(fms, fs, Head(configs), TRUE, ord)
                    ELSE reindex_internal(fms, fs, Head(configs), ord)
         IN  IF one[3] THEN one
             ELSE ForEachTable(one[1], one[2], Tail(configs), allow_load, ord)

---------------------------------------------------------------------------
(* Wire strings: sequences of lexemes.                                     *)

\* str.lower()
lower(text) == [i \in 1..Len(text) |-> Lower(text[i])]

IsBlank(lexeme) == lexeme = " "

RECURSIVE lstrip(_)
lstrip(text) ==
    IF text # <<>> /\ IsBlank(Head(text)) THEN lstrip(Tail(text)) ELSE text

RECURSIVE rstrip(_)
rstrip(text) ==
    IF text # <<>> /\ IsBlank(text[Len(text)])
    THEN rstrip(SubSeq(text, 1, Len(text) - 1)) ELSE text

\* str.strip()
strip(text) == rstrip(lstrip(text))

\* The Python string a lexeme sequence spells.
RECURSIVE Str(_)
Str(text) == IF text = <<>> THEN "" ELSE Head(text) \o Str(Tail(text))

\* Position of the first sep in text, 0 when there is none.
RECURSIVE Find(_, _, _)
Find(text, sep, from) ==
    IF from > Len(text) THEN 0
    ELSE IF text[from] = sep THEN from ELSE Find(text, sep, from + 1)

\* str.split(sep): always at least one part.
RECURSIVE split(_, _)
split(text, sep) ==
    LET at == Find(text, sep, 1)
    IN  IF at = 0 THEN << text >>
        ELSE << SubSeq(text, 1, at - 1) >>
             \o split(SubSeq(text, at + 1, Len(text)), sep)

\* str.split(sep, 1) on a text that holds sep.
split1(text, sep) ==
    LET at == Find(text, sep, 1)
    IN  << SubSeq(text, 1, at - 1), SubSeq(text, at + 1, Len(text)) >>

---------------------------------------------------------------------------
(* app/filters/filter_handler.py: the filter compiler.  A conversion that  *)
(* raises ValueError yields {}, one that succeeds yields {value}.          *)

\* int(s)
ParseInt(s) ==
    CASE s = "1" -> {1}
      [] s = "2" -> {2}
      [] OTHER   -> {}

\* A Python float: a number, held in tenths, or nan.
Float(tenths) == [nan |-> FALSE, tenths |-> tenths]

NaN == [nan |-> TRUE, tenths |-> 0]

\* a <= b on floats: False whenever one of them is nan.
FloatLe(a, b) == ~a.nan /\ ~b.nan /\ a.tenths <= b.tenths

\* float(s)
ParseFloat(s) ==
    CASE s = "0"   -> { Float(0) }
      [] s = "1"   -> { Float(10) }
      [] s = "1.5" -> { Float(15) }
      [] s = "2"   -> { Float(20) }
      [] s = "-1"  -> { Float(-10) }
      [] s = "90"  -> { Float(900) }
      [] s = "91"  -> { Float(910) }
      [] s = "-91" -> { Float(-910) }
      [] s = "180" -> { Float(1800) }
      [] s = "181" -> { Float(1810) }
      [] s = "nan" -> { NaN }
      [] OTHER     -> {}

\* datetime.fromisoformat(s) of Python 3.11, the datetime spelled in ISO
\* form: a year alone, a month and day alone and a trailing lowercase z are
\* not ISO datetimes.
fromisoformat(s) ==
    CASE s = "2024-01-01" -> {"2024-01-01 00:00:00"}
      [] s = "2024-12-31" -> {"2024-12-31 00:00:00"}
      [] OTHER            -> {}

\* FilterHandler._convert_value.  The value is lowercase: neither "Z" nor "T"
\* occurs in it, and both replace calls return it as it is.
convert_value(value, data_type) ==
    IF value = "" /\ data_type \notin {"string", "enum"} THEN {}
    ELSE CASE data_type = "int"     -> ParseInt(value)
           [] data_type = "decimal" -> ParseFloat(value)
           [] data_type = "date"    ->
                 IF fromisoformat(value) # {} THEN fromisoformat(value)
                 ELSE fromisoformat(value)
           [] OTHER                 -> {value}

\* [ve.lower() for ve in filter_config.valid_enum_values]
lowercase_valid_enum_values(filter_config) ==
    { Lower(filter_config.valid_enum_values[i]) :
        i \in 1..Len(filter_config.valid_enum_values) }

\* Every token that is not empty and that the data type reads, the allow-list
\* of an enum left aside.
RECURSIVE values_of_any_member(_, _)
values_of_any_member(raw_values, filter_config) ==
    IF raw_values = <<>> THEN <<>>
    ELSE LET v_str == Str(strip(Head(raw_values)))
             got == IF v_str = "" THEN {}
                    ELSE convert_value(v_str, filter_config.data_type)
         IN  (IF got = {} THEN <<>> ELSE << CHOOSE x \in got : TRUE >>)
             \o values_of_any_member(Tail(raw_values), filter_config)

\* The loop of the "in" branch over the comma-separated tokens.
RECURSIVE parsed_and_validated_values(_, _)
parsed_and_validated_values(raw_values, filter_config) ==
    IF raw_values = <<>> THEN <<>>
    ELSE LET v_str == Str(strip(Head(raw_values)))
             is_valid_for_enum ==
                 ~ ( /\ filter_config.data_type = "enum"
                     /\ filter_config.valid_enum_values # <<>>
                     /\ v_str \notin lowercase_valid_enum_values(filter_config) )
             got == IF v_str = "" \/ ~is_valid_for_enum THEN {}
                    ELSE convert_value(v_str, filter_config.data_type)
         IN  (IF got = {} THEN <<>> ELSE << CHOOSE x \in got : TRUE >>)
             \o parsed_and_validated_values(Tail(raw_values), filter_config)

\* The "range" branch of _parse_filter_value.
parse_range(value_str, data_type) ==
    IF Find(value_str, "-", 1) # 0
    THEN LET parts == split1(value_str, "-")
             min_part == Str(strip(parts[1]))
             max_part == Str(strip(parts[2]))
             lo == convert_value(min_part, data_type)
             hi == convert_value(max_part, data_type)
         IN  IF min_part # "" /\ lo = {} THEN {}
             ELSE IF max_part # "" /\ hi = {} THEN {}
             ELSE IF min_part # "" /\ max_part # ""
                  THEN { [min |-> x, max |-> y] : x \in lo, y \in hi }
             ELSE IF min_part # "" THEN { [min |-> x] : x \in lo }
             ELSE IF max_part # "" THEN { [max |-> y] : y \in hi }
             ELSE {}
    ELSE { [exact |-> x] : x \in convert_value(Str(value_str), data_type) }

\* The "distance" branch of _parse_filter_value.
parse_distance(value, data_type) ==
    LET parts == split(value, ",")
    IN  IF data_type # "geo" \/ Len(parts) # 3 THEN {}
        ELSE LET lat  == ParseFloat(Str(strip(parts[1])))
                 lon  == ParseFloat(Str(strip(parts[2])))
                 dist == ParseFloat(Str(strip(parts[3])))
             IN  IF lat = {} \/ lon = {} \/ dist = {} THEN {}
                 ELSE LET center_lat == CHOOSE x \in lat : TRUE
                          center_lon == CHOOSE x \in lon : TRUE
                          max_dist   == CHOOSE x \in dist : TRUE
                      IN  IF ~ ( /\ FloatLe(Float(-900), center_lat)
                                 /\ FloatLe(center_lat, Float(900))
                                 /\ FloatLe(Float(-1800), center_lon)
                                 /\ FloatLe(center_lon, Float(1800)) )
                          THEN {}
                          ELSE IF FloatLe(max_dist, Float(0)) THEN {}
                          ELSE { [center_lat |-> center_lat, center_lon |-> center_lon,
                                  max_distance |-> max_dist] }

\* FilterHandler._parse_filter_value: {} for None, else {filter_data}.
parse_filter_value(value, filter_config) ==
    CASE filter_config.filter_type = "range" ->
            parse_range(value, filter_config.data_type)
      [] filter_config.filter_type = "distance" ->
            parse_distance(value, filter_config.data_type)
      [] filter_config.filter_type = "in" ->
            LET values == parsed_and_validated_values(split(value, ","), filter_config)
            IN  IF values = <<>> THEN {} ELSE { [values |-> values] }
      [] filter_config.filter_type \in {"exact", "like"} ->
            LET val_str == Str(value)
            IN  IF /\ filter_config.data_type = "enum"
                   /\ filter_config.valid_enum_values # <<>>
                   /\ val_str \notin lowercase_valid_enum_values(filter_config)
                THEN {}
                ELSE { [value |-> x] : x \in convert_value(val_str, filter_config.data_type) }
      [] OTHER -> {}

\* available_filters[column]
FilterConfigOf(table_config, column) ==
    LET i == CHOOSE j \in 1..Len(table_config.filters) :
                 /\ table_config.filters[j].column = column
                 /\ \A k \in (j + 1)..Len(table_config.filters) :
                        table_config.filters[k].column # column
    IN  table_config.filters[i]

\* parsed_filters[column] = entry: a dict keeps the place of a key it has.
DictSet(d, entry) ==
    IF \E i \in 1..Len(d) : d[i].column = entry.column
    THEN [i \in 1..Len(d) |-> IF d[i].column = entry.column THEN entry ELSE d[i]]
    ELSE Append(d, entry)

\* The entry parse_filters stores under a column.
Entry(column, filter_data, filter_config, table_config) ==
    IF filter_config.filter_type = "distance"
    THEN [column |-> column, filter_data |-> filter_data,
          data_type |-> filter_config.data_type,
          filter_type |-> filter_config.filter_type,
          latitude_column_name |-> table_config.latitude_column,
          longitude_column_name |-> table_config.longitude_column]
    ELSE [column |-> column, filter_data |-> filter_data,
          data_type |-> filter_config.data_type,
          filter_type |-> filter_config.filter_type]

\* A loop over the pairs that gives up the whole string at the first pair it
\* cannot compile.
RECURSIVE parse_pairs_or_nothing(_, _, _)
parse_pairs_or_nothing(filter_pairs, table_config, parsed_filters) ==
    IF filter_pairs = <<>> THEN parsed_filters
    ELSE LET pair == Head(filter_pairs)
             rest == Tail(filter_pairs)
         IN  IF Find(pair, ":", 1) = 0 THEN <<>>
             ELSE LET column    == Str(strip(split1(pair, ":")[1]))
                      value_str == lower(strip(split1(pair, ":")[2]))
                  IN  IF \A i \in 1..Len(table_config.filters) :
                             table_config.filters[i].column # column
                      THEN <<>>
                      ELSE LET filter_config == FilterConfigOf(table_config, column)
                               data == parse_filter_value(value_str, filter_config)
                           IN  IF data = {} THEN <<>>
                               ELSE parse_pairs_or_nothing(rest, table_config,
                                        DictSet(parsed_filters,
                                            Entry(column, CHOOSE x \in data : TRUE,
                                                  filter_config, table_config)))

\* The loop of parse_filters over the pairs.
RECURSIVE parse_pairs(_, _, _)
parse_pairs(filter_pairs, table_config, parsed_filters) ==
    IF filter_pairs = <<>> THEN parsed_filters
    ELSE LET pair == Head(filter_pairs)
             rest == Tail(filter_pairs)
         IN  IF Find(pair, ":", 1) = 0
             THEN parse_pairs(rest, table_config, parsed_filters)
             ELSE LET column    == Str(strip(split1(pair, ":")[1]))
                      value_str == lower(strip(split1(pair, ":")[2]))
                  IN  IF \A i \in 1..Len(table_config.filters) :
                             table_config.filters[i].column # column
                      THEN parse_pairs(rest, table_config, parsed_filters)
                      ELSE LET filter_config == FilterConfigOf(table_config, column)
                               data == parse_filter_value(value_str, filter_config)
                           IN  IF data = {}
                               THEN parse_pairs(rest, table_config, parsed_filters)
                               ELSE parse_pairs(rest, table_config,
                                        DictSet(parsed_filters,
                                            Entry(column, CHOOSE x \in data : TRUE,
                                                  filter_config, table_config)))

\* FilterHandler.parse_filters: the dict as the sequence of its items.
parse_filters(filters_param, table_config) ==
    IF filters_param = <<>> \/ table_config.filters = <<>> THEN <<>>
    ELSE parse_pairs(split(filters_param, ";"), table_config, <<>>)

---------------------------------------------------------------------------
(* app/db/database_connector.py: the statements and what MySQL answers.    *)

\* One condition of a WHERE clause: its operator, its column and the number
\* of %s placeholders it holds.
Cond(op, column, n) == [op |-> op, column |-> column, n |-> n]

\* DatabaseConnector._build_filter_conditions: the loop body for one entry of
\* the parsed filters, given the conditions and parameters so far.
build_one(acc, entry) ==
    LET filter_data == entry.filter_data
        keys == DOMAIN filter_data
        col  == entry.column
    IN  CASE entry.filter_type = "distance" ->
                IF /\ entry.latitude_column_name \notin {NULL, ""}
                   /\ entry.longitude_column_name \notin {NULL, ""}
                   /\ {"center_lat", "center_lon", "max_distance"} \subseteq keys
                THEN [conditions |-> Append(acc.conditions,
                                        [op |-> "distance", column |-> col, n |-> 4,
                                         lat |-> entry.latitude_column_name,
                                         lon |-> entry.longitude_column_name]),
                      params |-> acc.params \o << filter_data.center_lat, filter_data.center_lon,
                                                  filter_data.center_lat, filter_data.max_distance >>]
                ELSE acc
          [] "values" \in keys ->
                IF filter_data.values # <<>>
                THEN [conditions |-> Append(acc.conditions,
                                            Cond("in", col, Len(filter_data.values))),
                      params |-> acc.params \o filter_data.values]
                ELSE acc
          [] "min" \in keys /\ "max" \in keys ->
                [conditions |-> acc.conditions \o << Cond("ge", col, 1), Cond("le", col, 1) >>,
                 params |-> acc.params \o << filter_data.min, filter_data.max >>]
          [] "min" \in keys ->
                [conditions |-> Append(acc.conditions, Cond("ge", col, 1)),
                 params |-> Append(acc.params, filter_data.min)]
          [] "max" \in keys ->
                [conditions |-> Append(acc.conditions, Cond("le", col, 1)),
                 params |-> Append(acc.params, filter_data.max)]
          [] "exact" \in keys ->
                [conditions |-> Append(acc.conditions, Cond("eq", col, 1)),
                 params |-> Append(acc.params, filter_data.exact)]
          \* the "value" branch builds condition_sql and never appends it
          [] "value" \in keys ->
                [conditions |-> acc.conditions,
                 params |-> Append(acc.params, filter_data.value)]
          [] OTHER -> acc

RECURSIVE build_from(_, _)
build_from(acc, filters) ==
    IF filters = <<>> THEN acc
    ELSE build_from(build_one(acc, Head(filters)), Tail(filters))

\* DatabaseConnector._build_filter_conditions
build_filter_conditions(filters) ==
    build_from([conditions |-> <<>>, params |-> <<>>], filters)

RECURSIVE Placeholders(_)
Placeholders(conditions) ==
    IF conditions = <<>> THEN 0
    ELSE Head(conditions).n + Placeholders(Tail(conditions))

\* Whether row r satisfies cond with the parameters bound to its placeholders.
Satisfies(r, cond, bound) ==
    CASE cond.op = "in" -> r[cond.column] \in Range(bound)
      [] cond.op = "ge" -> r[cond.column] >= bound[1]
      [] cond.op = "le" -> r[cond.column] <= bound[1]
      [] cond.op = "eq" -> r[cond.column] = bound[1]
      \* 6371 * ACOS(...) <= %s, for a row at the centre: 0 <= %s
      [] cond.op = "distance" ->
            /\ r[cond.lat] = bound[1] /\ r[cond.lon] = bound[2]
            /\ FloatLe(Float(0), bound[4])
      [] OTHER          -> FALSE

RECURSIVE SatisfiesAll(_, _, _)
SatisfiesAll(r, conditions, params) ==
    IF conditions = <<>> THEN TRUE
    ELSE /\ Satisfies(r, Head(conditions), SubSeq(params, 1, Head(conditions).n))
         /\ SatisfiesAll(r, Tail(conditions),
                         SubSeq(params, Head(conditions).n + 1, Len(params)))

\* The columns of a table.
ColumnsOf(table_name) == {"id"} \cup DOMAIN (CHOOSE v \in RowValues(table_name) : TRUE)

\* The words MySQL's full-text index holds for a row.
RowWords(r, columns) ==
    { Lower(r[columns[i]]) : i \in { j \in 1..Len(columns) : r[columns[j]] # NULL } }

\* The prefixes of the words the store holds.
Prefixes(word) ==
    CASE word = "cam"   -> {"c", "ca", "cam"}
      [] word = "drill" -> {"d", "dr", "dri", "dril", "drill"}
      [] word = "ana"   -> {"a", "an", "ana"}
      [] OTHER          -> {word}

\* MATCH(columns) AGAINST (%s IN BOOLEAN MODE | IN NATURAL LANGUAGE MODE):
\* in boolean mode the last word of the search string carries the wildcard.
FullTextMatch(r, match) ==
    LET words == SeqFilter(match.text, { w \in Range(match.text) : ~IsBlank(w) })
        n == Len(words)
    IN  \E w \in RowWords(r, match.columns) :
            \/ \E i \in 1..n : words[i] = w /\ (match.mode = "natural" \/ i < n)
            \/ match.mode = "boolean" /\ n > 0 /\ words[n] \in Prefixes(w)

NoMatch == [mode |-> "none", text |-> <<>>, columns |-> <<>>]

\* DatabaseConnector.execute_query on "SELECT id FROM `table` WHERE ... LIMIT":
\* None (ok = FALSE) when the statement fails, else the ids in store order.
\* The statement fails when the parameters handed over are not as many as its
\* placeholders, and when it names a column the table does not have.
SelectIds(table_name, match, conditions, limited, params, ord) ==
    LET holes == (IF match.mode = "none" THEN 0 ELSE 1) + Placeholders(conditions)
                 + (IF limited THEN 1 ELSE 0)
        bad   == \/ holes # Len(params)
                 \/ \E i \in 1..Len(conditions) :
                        IF conditions[i].op = "distance"
                        THEN ~ ({conditions[i].lat, conditions[i].lon} \subseteq ColumnsOf(table_name))
                        ELSE conditions[i].column \notin ColumnsOf(table_name)
        first == IF match.mode = "none" THEN 1 ELSE 2
        last  == IF limited THEN Len(params) - 1 ELSE Len(params)
        rows  == { r \in store[table_name] :
                     /\ match.mode # "none" => FullTextMatch(r, match)
                     /\ SatisfiesAll(r, conditions, SubSeq(params, first, last)) }
        ordered == InStoreOrder(rows, ord)
        ids == [i \in 1..Len(ordered) |-> ordered[i].id]
    IN  IF bad THEN [ok |-> FALSE, ids |-> <<>>]
        ELSE [ok |-> TRUE,
              ids |-> IF limited THEN Take(ids, params[Len(params)]) ELSE ids]

\* The escaping of + - ( ) * ? in a short query.
Escape(lexeme) ==
    CASE lexeme = "+" -> "\\+"
      [] lexeme = "-" -> "\\-"
      [] lexeme = "(" -> "\\("
      [] lexeme = ")" -> "\\)"
      [] lexeme = "*" -> "\\*"
      [] lexeme = "?" -> "\\?"
      [] OTHER        -> lexeme

\* The MATCH ... AGAINST of search_fulltext and search_fulltext_with_filters.
fulltext_match(search_columns, query_text) ==
    LET processed_query_text == strip(query_text)
    IN  IF Len(Str(processed_query_text)) <= 3
        THEN [mode |-> "boolean", columns |-> search_columns,
              text |-> [i \in 1..Len(processed_query_text) |->
                           Escape(processed_query_text[i])]]
        ELSE [mode |-> "natural", columns |-> search_columns,
              text |-> processed_query_text]

\* The statement a function of the connector hands to execute_query: its
\* MATCH, the conditions of its WHERE, whether it ends in LIMIT %s, and the
\* parameters in the order handed over.
sql_query(fn, search_columns, query_text, filters, top_n) ==
    LET m == fulltext_match(search_columns, query_text)
        f == build_filter_conditions(filters)
    IN  CASE fn = "search_fulltext" ->
                [match |-> m, conditions |-> <<>>, limited |-> TRUE,
                 params |-> << Str(m.text), top_n >>]
          [] fn = "search_fulltext_with_filters" ->
                IF f.conditions # <<>>
                THEN [match |-> m, conditions |-> f.conditions, limited |-> TRUE,
                      params |-> << Str(m.text) >> \o f.params \o << top_n >>]
                ELSE [match |-> m, conditions |-> <<>>, limited |-> TRUE,
                      params |-> << Str(m.text), top_n >>]
          [] fn = "get_filtered_ids" ->
                [match |-> NoMatch, conditions |-> f.conditions, limited |-> FALSE,
                 params |-> f.params]
          [] fn = "get_all_with_filters" ->
                [match |-> NoMatch, conditions |-> f.conditions, limited |-> TRUE,
                 params |-> f.params \o << top_n >>]

\* DatabaseConnector.search_fulltext
search_fulltext(table_name, search_columns, query_text, top_n, ord) ==
    IF search_columns = <<>> THEN <<>>
    ELSE LET q == sql_query("search_fulltext", search_columns, query_text, <<>>, top_n)
         IN  SelectIds(table_name, q.match, q.conditions, q.limited, q.params, ord).ids

\* DatabaseConnector.search_fulltext_with_filters
search_fulltext_with_filters(table_name, search_columns, query_text, filters, top_n, ord) ==
    IF search_columns = <<>> THEN <<>>
    ELSE LET q == sql_query("search_fulltext_with_filters", search_columns, query_text,
                            filters, top_n)
         IN  SelectIds(table_name, q.match, q.conditions, q.limited, q.params, ord).ids

\* DatabaseConnector.get_filtered_ids
get_filtered_ids(table_name, filters, ord) ==
    LET q == sql_query("get_filtered_ids", <<>>, <<>>, filters, 0)
    IN  SelectIds(table_name, q.match, q.conditions, q.limited, q.params, ord).ids

\* DatabaseConnector.get_all_with_filters
get_all_with_filters(table_name, filters, top, ord) ==
    LET q == sql_query("get_all_with_filters", <<>>, <<>>, filters, top)
    IN  SelectIds(table_name, q.match, q.conditions, q.limited, q.params, ord).ids

\* DatabaseConnector.get_items_by_ids: SELECT * ... WHERE id IN (...)
get_items_by_ids(table_name, ids, ord) ==
    IF ids = <<>> THEN <<>>
    ELSE InStoreOrder({ r \in store[table_name] : r.id \in Range(ids) }, ord)

---------------------------------------------------------------------------
(* What a request leaves behind: the handler, its arguments, the HTTP      *)
(* status, the store statements it issued and, for a search, its lists.    *)
(* had is the number of entries the table's index held for item_id when    *)
(* the request arrived; repeat tells that the request before it was the    *)
(* same successful upsert of the same row.                                 *)

Resp(op, table, status, item_id, item, queries, search) ==
    [op |-> op, table |-> table, status |-> status, item_id |-> item_id,
     item |-> item, queries |-> queries, search |-> search,
     had |-> IF op = "add_to_index" /\ table \in DOMAIN faiss_managers
             THEN EntriesFor(faiss_managers[table], item_id) ELSE 0,
     repeat |-> /\ op = "add_to_index" /\ status = 200
                /\ response.op = op /\ response.status = 200
                /\ response.table = table /\ response.item = item]

\* A statement handed to execute_query; ok tells whether it returned rows.
Q(fn, table) == [fn |-> fn, table |-> table, ok |-> TRUE]

\* The statement raised mysql.connector.Error or the connection was lost.
Failed(q) == [q EXCEPT !.ok = FALSE]

\* DatabaseConnector.execute_query: the rows of a SELECT, or None ({}) when
\* the connection is gone or the statement raises.
execute_query(rows, failed) == IF failed THEN {} ELSE { rows }

\* The statement as the response records it.
QS(fn, table, failed) == IF failed THEN Failed(Q(fn, table)) ELSE Q(fn, table)

\* `result if isinstance(result, list) else []` of the search wrappers.
OrEmpty(result, failed) == IF failed THEN <<>> ELSE result

\* The statements of a search that can fail: the lexical one (full text, or
\* the filtered listing of a search without query), the one that fetches the
\* filtered ids for the vector index, and the hydration.
Statements == {"lexical", "filter", "hydrate"}

\* `result if isinstance(result, list) else None`, then `if not item_list`.
IsEmptyOrNone(result) == result = {} \/ result = { <<>> }

\* No request has been answered since the store last changed.
NoResponse ==
    [op |-> "none", table |-> "", status |-> 0, item_id |-> 0,
     item |-> {}, queries |-> <<>>, search |-> {}, had |-> 0, repeat |-> FALSE]

\* The event loop with no request in flight.
NoRequests == [running |-> 0, tasks |-> <<>>]

\* SELECT * FROM `table` without ORDER BY: InnoDB scans the primary key.
ById == [i \in Ids |-> i]

---------------------------------------------------------------------------
(* Faiss_Manager.search_text_with_filter and GET /indexes/{table_name}.    *)

\* Squared L2 distance.
Distance(a, b) == (a - b) * (a - b)

\* The positions of index among cand, nearest first; equal distances in
\* insertion order.
RECURSIVE Nearest(_, _, _)
Nearest(index, cand, q) ==
    IF cand = {} THEN <<>>
    ELSE LET best == CHOOSE i \in cand : \A j \in cand :
                        \/ Distance(index[i].vec, q) < Distance(index[j].vec, q)
                        \/ /\ Distance(index[i].vec, q) = Distance(index[j].vec, q)
                           /\ i <= j
         IN  << best >> \o Nearest(index, cand \ {best}, q)

\* filter_ids: {} for None, else {the list}.  The result is indices[0]: top_k
\* labels, -1 where the index has no more candidates; no slot at all when the
\* index is empty.
search_text_with_filter(index, text, filter_ids, top_k) ==
    IF Len(index) = 0 THEN <<>>
    ELSE LET embedding == encode(Str(lower(text)))
             filtered  == filter_ids # {} /\ (CHOOSE l \in filter_ids : TRUE) # <<>>
             cand == IF filtered
                     THEN { i \in 1..Len(index) :
                              index[i].id \in Range(CHOOSE l \in filter_ids : TRUE) }
                     ELSE 1..Len(index)
             near == Nearest(index, cand, embedding)
         IN  [k \in 1..top_k |-> IF k <= Len(near) THEN index[near[k]].id ELSE -1]

\* list(dict.fromkeys(ids))
RECURSIVE fromkeys(_)
fromkeys(ids) ==
    IF ids = <<>> THEN <<>>
    ELSE LET front == fromkeys(SubSeq(ids, 1, Len(ids) - 1))
             x == ids[Len(ids)]
         IN  IF x \in Range(front) THEN front ELSE Append(front, x)

\* `not processed_query or not processed_query.strip()`
no_query(processed_query) == processed_query = <<>> \/ strip(processed_query) = <<>>

\* A response row that is the row as fetched.
item_as_fetched(item, table_name) == item

\* create_response_model: the fields of the model made from sample_item.
create_response_model(table_name, sample_item) ==
    { key \in DOMAIN sample_item :
        key \notin {"embedding", "created_at", "updated_at", "last_embedding_generated_at"} }

\* item_to_response: the excluded fields are popped from a copy of the item
\* and the model made from the copy is filled with it.
item_to_response(item, table_name) ==
    LET excluded_fields == {"embedding", "created_at", "updated_at",
                            "last_embedding_generated_at"}
        clean_item == [f \in DOMAIN item \ excluded_fields |-> item[f]]
    IN  [f \in create_response_model(table_name, clean_item) |-> clean_item[f]]

\* [item_to_response(fetched_items_dict[r], table_name) for r in results]
response_rows(results, fetched, table_name) ==
    [i \in 1..Len(results) |->
        item_to_response(CHOOSE item \in Range(fetched) : item.id = results[i], table_name)]

\* A hydration that emits the rows as the store returned them.
hydrate_in_fetch_order(table_name, inputs, lexical_ids, id_matrix, semantic_ids, consulted, queries, combined, fetched) ==
    Resp("search_items", table_name, 200, 0, {},
        queries \o (IF combined # <<>>
                    THEN << QS("get_items_by_ids", table_name, "hydrate" \in inputs.fail) >>
                    ELSE <<>>),
        { [query |-> inputs.query, top |-> inputs.top, filters |-> inputs.filters,
           ord |-> inputs.ord, fail |-> inputs.fail,
           lexical_ids |-> lexical_ids, semantic_ids |-> semantic_ids,
           id_matrix |-> id_matrix, consulted |-> consulted, combined |-> combined,
           fetched |-> { fetched[i].id : i \in 1..Len(fetched) },
           results |-> [i \in 1..Len(fetched) |-> fetched[i].id],
           rows |-> response_rows([i \in 1..Len(fetched) |-> fetched[i].id], fetched,
                                  table_name)] })

\* search_items, lines 351-366: fusion and hydration.  hord is the order in
\* which the store returns the rows of the hydration.
search_hydrate(table_name, inputs, lexical_ids, id_matrix, semantic_ids, consulted, queries, combined, fetched) ==
    Resp("search_items", table_name, 200, 0, {},
        queries \o (IF combined # <<>>
                    THEN << QS("get_items_by_ids", table_name, "hydrate" \in inputs.fail) >>
                    ELSE <<>>),
        { [query |-> inputs.query, top |-> inputs.top, filters |-> inputs.filters,
           ord |-> inputs.ord, fail |-> inputs.fail,
           lexical_ids |-> lexical_ids, semantic_ids |-> semantic_ids,
           id_matrix |-> id_matrix, consulted |-> consulted, combined |-> combined,
           fetched |-> { fetched[i].id : i \in 1..Len(fetched) },
           results |-> SeqFilter(combined, { fetched[i].id : i \in 1..Len(fetched) }),
           rows |-> response_rows(SeqFilter(combined,
                                            { fetched[i].id : i \in 1..Len(fetched) }),
                                  fetched, table_name)] })

search_combine(table_name, inputs, lexical_ids, id_matrix, semantic_ids, consulted, queries, combined, hord) ==
    search_hydrate(table_name, inputs, lexical_ids, id_matrix, semantic_ids, consulted,
                   queries, combined,
                   OrEmpty(get_items_by_ids(table_name, combined, hord),
                           "hydrate" \in inputs.fail))

\* A fusion that walks the semantic ids before the lexical ones.
fuse_semantic_first(table_name, inputs, lexical_ids, id_matrix, semantic_ids, consulted, queries, hord) ==
    search_combine(table_name, inputs, lexical_ids, id_matrix, semantic_ids, consulted,
                   queries, fromkeys(semantic_ids \o lexical_ids), hord)

search_fuse(table_name, inputs, lexical_ids, id_matrix, semantic_ids, consulted, queries, hord) ==
    search_combine(table_name, inputs, lexical_ids, id_matrix, semantic_ids, consulted,
                   queries, fromkeys(lexical_ids \o semantic_ids), hord)

\* A semantic list that is the label row as the index answered it.
semantic_with_markers(table_name, inputs, lexical_ids, id_matrix, queries, hord) ==
    search_fuse(table_name, inputs, lexical_ids, id_matrix, id_matrix, TRUE, queries, hord)

\* semantic_ids = [i for i in id_matrix[0].tolist() if i != -1]
search_semantic(table_name, inputs, lexical_ids, id_matrix, queries, hord) ==
    search_fuse(table_name, inputs, lexical_ids, id_matrix,
                SeqFilter(id_matrix, Range(id_matrix) \ {-1}), TRUE, queries, hord)

\* search_items, lines 299-349, for a configured table: the two id lists.
\* ord is the order in which the store returns the ids of this request's
\* statements.
search_retrieve(table_name, table_config, inputs, processed_query, parsed_filters, hord) ==
    IF no_query(processed_query)
    THEN search_fuse(table_name, inputs,
             OrEmpty(get_all_with_filters(table_name, parsed_filters, inputs.top,
                                          inputs.ord), "lexical" \in inputs.fail),
             <<>>, <<>>, FALSE,
             << QS("get_all_with_filters", table_name, "lexical" \in inputs.fail) >>,
             hord)
    ELSE IF table_name \in DOMAIN faiss_managers
    THEN IF parsed_filters # <<>>
         THEN search_semantic(table_name, inputs,
                  OrEmpty(search_fulltext_with_filters(table_name, table_config.columns,
                              processed_query, parsed_filters, inputs.top, inputs.ord),
                          "lexical" \in inputs.fail),
                  search_text_with_filter(faiss_managers[table_name], processed_query,
                      { OrEmpty(get_filtered_ids(table_name, parsed_filters, inputs.ord),
                                "filter" \in inputs.fail) },
                      inputs.top),
                  << QS("search_fulltext_with_filters", table_name,
                        "lexical" \in inputs.fail),
                     QS("get_filtered_ids", table_name, "filter" \in inputs.fail) >>,
                  hord)
         ELSE search_semantic(table_name, inputs,
                  OrEmpty(search_fulltext(table_name, table_config.columns,
                              processed_query, inputs.top, inputs.ord),
                          "lexical" \in inputs.fail),
                  search_text_with_filter(faiss_managers[table_name], processed_query,
                                          {}, inputs.top),
                  << QS("search_fulltext", table_name, "lexical" \in inputs.fail) >>,
                  hord)
    ELSE search_fuse(table_name, inputs,
             OrEmpty(IF parsed_filters # <<>>
                     THEN search_fulltext_with_filters(table_name, table_config.columns,
                              processed_query, parsed_filters, inputs.top, inputs.ord)
                     ELSE search_fulltext(table_name, table_config.columns,
                              processed_query, inputs.top, inputs.ord),
                     "lexical" \in inputs.fail),
             <<>>, <<>>, FALSE,
             << QS(IF parsed_filters # <<>> THEN "search_fulltext_with_filters"
                   ELSE "search_fulltext", table_name, "lexical" \in inputs.fail) >>,
             hord)

\* search_items as a function: what it returns or raises.  inputs.fail holds
\* the statements of this request that fail, inputs.ord and hord the orders
\* in which the store returns ids and rows.
search_table(table_name, inputs, hord) ==
    IF ~HasConfig(table_name)
    THEN Resp("search_items", table_name, 404, 0, {}, <<>>, {})
    ELSE search_retrieve(table_name, get_table_config(table_name), inputs,
             lower(inputs.query),
             parse_filters(inputs.filters, get_table_config(table_name)), hord)

\* GET /indexes/{table_name}
search_items(table_name, query, top, filters, ord, hord, fail) ==
    /\ up
    /\ UNCHANGED <<store, faiss_managers, files, up, loop>>
    /\ response' = search_table(table_name,
                        [query |-> query, top |-> top, filters |-> filters,
                         ord |-> ord, fail |-> fail], hord)

---------------------------------------------------------------------------
(* GET /indexes/omnisearch.                                                *)

\* What omnisearch stores under a table's name: the response of
\* search_items, or the error object made of the HTTPException it raised.
TableEntry(r) ==
    IF r.status = 200
    THEN [results |-> (CHOOSE s \in r.search : TRUE).results]
    ELSE [error |-> "not found", status_code |-> r.status]

\* result[table] = ...
SetEntry(result, table, entry) ==
    [t \in DOMAIN result \cup {table} |-> IF t = table THEN entry ELSE result[t]]

\* A loop that lets the first HTTPException end it.
RECURSIVE search_until_error(_, _, _, _)
search_until_error(result, tables, inputs, hord) ==
    IF tables = <<>> THEN result
    ELSE LET r == search_table(Head(tables), inputs, hord)
         IN  IF r.status # 200 THEN SetEntry(result, Head(tables), TableEntry(r))
             ELSE search_until_error(SetEntry(result, Head(tables), TableEntry(r)),
                                     Tail(tables), inputs, hord)

\* `for table in tables: try: ... except HTTPException as e: ...`
RECURSIVE search_each(_, _, _, _)
search_each(result, tables, inputs, hord) ==
    IF tables = <<>> THEN result
    ELSE search_each(SetEntry(result, Head(tables),
                              TableEntry(search_table(Head(tables), inputs, hord))),
                     Tail(tables), inputs, hord)

omnisearch(query, top, tables, filters, ord, hord) ==
    /\ up
    /\ UNCHANGED <<store, faiss_managers, files, up, loop>>
    /\ LET processed_query == IF query # <<>> THEN lower(query) ELSE <<>>
           result == search_each(<<>>, tables,
                         [query |-> processed_query, top |-> top, filters |-> filters,
                          ord |-> ord, fail |-> {}], hord)
       IN  response' = Resp("omnisearch", "", 200, 0,
                            { [query |-> query, top |-> top, tables |-> tables,
                               filters |-> filters, ord |-> ord, hord |-> hord,
                               result |-> result] }, <<>>, {})

---------------------------------------------------------------------------
(* Startup: faiss_managers = {} and the module-level loop of app/main.py.  *)

\* An exception of the loop ends the import of app.main: the process exits
\* and serves nothing.
Startup ==
    /\ ~up
    /\ LET r == ForEachTable(<<>>, files, tables_to_index, TRUE, ById)
       IN  /\ faiss_managers' = IF r[3] THEN <<>> ELSE r[1]
           /\ files' = r[2]
           /\ up' = ~r[3]
           /\ response' = Resp("startup", "", IF r[3] THEN 500 ELSE 200, 0, {},
                               <<>>, {})
    /\ UNCHANGED <<store, loop>>

\* The process ends; the index files and the store stay.
Stop ==
    /\ up
    /\ up' = FALSE
    /\ faiss_managers' = <<>>
    /\ response' = Resp("stop", "", 0, 0, {}, <<>>, {})
    /\ UNCHANGED <<store, files, loop>>

---------------------------------------------------------------------------
(* Writes to the store by the applications that own the rows.              *)

StoreWrite(t, i, v) ==
    /\ store' = [store EXCEPT ![t] = { r \in @ : r.id # i } \cup { Row(i, v) }]
    /\ response' = NoResponse
    /\ UNCHANGED <<faiss_managers, files, up, loop>>

StoreDelete(t, i) ==
    /\ i \in RowIds(store[t])
    /\ store' = [store EXCEPT ![t] = { r \in @ : r.id # i }]
    /\ response' = NoResponse
    /\ UNCHANGED <<faiss_managers, files, up, loop>>

---------------------------------------------------------------------------
(* POST /indexes/{table_name}?item_id= : add_to_index.                     *)

\* failed: the statement of get_with_id does not return rows.
add_to_index(table_name, item_id, failed) ==
    /\ up
    /\ UNCHANGED <<store, files, up, loop>>
    /\ IF ~HasConfig(table_name)
       THEN /\ response' = Resp("add_to_index", table_name, 404, item_id, {}, <<>>, {})
            /\ UNCHANGED faiss_managers
       ELSE LET table_config == get_table_config(table_name)
                fetched == execute_query(get_with_id(item_id, table_name, ById), failed)
                qs == << QS("get_with_id", table_name, failed) >>
            IN  IF IsEmptyOrNone(fetched)
                THEN /\ response' = Resp("add_to_index", table_name, 404, item_id,
                                         {}, qs, {})
                     /\ UNCHANGED faiss_managers
                ELSE LET item_list == CHOOSE l \in fetched : TRUE
                         item == item_list[1]
                     IN  IF ~table_config.hybrid
                         THEN /\ response' = Resp("add_to_index", table_name, 200,
                                                  item_id, {item}, qs, {})
                              /\ UNCHANGED faiss_managers
                         ELSE IF table_name \notin DOMAIN faiss_managers
                         \* KeyError
                         THEN /\ response' = Resp("add_to_index", table_name, 500,
                                                  item_id, {item}, qs, {})
                              /\ UNCHANGED faiss_managers
                         ELSE IF ~CanEmbed(item, table_config.columns)
                         \* ValueError of add_or_update_item
                         THEN /\ response' = Resp("add_to_index", table_name, 500,
                                                  item_id, {item}, qs, {})
                              /\ faiss_managers' =
                                    [faiss_managers EXCEPT ![table_name] =
                                        index_when_raised(@, item)]
                         ELSE /\ faiss_managers' =
                                    [faiss_managers EXCEPT ![table_name] =
                                        add_or_update_item(@, item, table_config.columns)]
                              /\ response' = Resp("add_to_index", table_name, 200,
                                                  item_id, {item}, qs, {})

---------------------------------------------------------------------------
(* POST /indexes/{table_name}/reindex and POST /indexes/reindex.           *)

reindex_table(table_name) ==
    /\ up
    /\ UNCHANGED <<store, up, loop>>
    /\ IF ~HasConfig(table_name)
       \* get_table_config raises outside any try: the framework answers 500
       THEN /\ response' = Resp("reindex_table", table_name, 500, 0, {}, <<>>, {})
            /\ UNCHANGED <<faiss_managers, files>>
       ELSE LET table_config == get_table_config(table_name)
                r == reindex_internal(faiss_managers, files, table_config, ById)
            IN  /\ faiss_managers' = r[1]
                /\ files' = r[2]
                /\ response' = Resp("reindex_table", table_name, 200, 0, {},
                                    IF table_config.hybrid
                                    THEN << Q("get_all_from_table", table_name) >>
                                    ELSE <<>>, {})

\* The process stops (kill, power loss) while reindex_table is inside
\* save_to_file: write_index has opened the path for writing and has not
\* written the whole index.
reindex_table_killed(table_name) ==
    /\ up
    /\ HasConfig(table_name)
    /\ get_table_config(table_name).hybrid
    /\ get_all_from_table(table_name, ById) # <<>>
    /\ files' = [t \in DOMAIN files \cup {table_name} |->
                    IF t = table_name THEN Unreadable ELSE files[t]]
    /\ up' = FALSE
    /\ faiss_managers' = <<>>
    /\ response' = Resp("killed", table_name, 0, 0, {},
                        << Q("get_all_from_table", table_name) >>, {})
    /\ UNCHANGED <<store, loop>>

\* A rebuild of a hybrid table one step of which fails.  handler is
\* reindex_table or reindex_tables; the entry of the table has been popped
\* when init_index_for_table starts.
\*   "store": execute_query answers None, get_all_from_table returns None and
\*            the build goes on as with no rows;
\*   "embed": Faiss_Manager(), which loads the SentenceTransformer, or encode
\*            raises;
\*   "write": faiss.write_index raises, having written nothing or a part.
\* An exception leaves init_index_for_table before faiss_managers[table_name]
\* is assigned, and the framework answers 500.
reindex_failed(handler, table_name, step, partial) ==
    /\ up
    /\ HasConfig(table_name)
    /\ get_table_config(table_name).hybrid
    /\ step = "write" => get_all_from_table(table_name, ById) # <<>>
    /\ partial => step = "write"
    /\ faiss_managers' =
           IF step = "store"
           THEN [t \in DOMAIN faiss_managers \cup {table_name} |->
                    IF t = table_name THEN <<>> ELSE faiss_managers[t]]
           ELSE Pop(faiss_managers, table_name)
    /\ files' = IF partial
                THEN [t \in DOMAIN files \cup {table_name} |->
                         IF t = table_name THEN Unreadable ELSE files[t]]
                ELSE files
    /\ response' = Resp(handler, IF handler = "reindex_table" THEN table_name ELSE "",
                        IF step = "store" THEN 200 ELSE 500, 0, {},
                        << QS("get_all_from_table", table_name, step = "store") >>, {})
    /\ UNCHANGED <<store, up, loop>>

reindex_tables ==
    /\ up
    /\ UNCHANGED <<store, up, loop>>
    /\ LET r == ForEachTable(faiss_managers, files, tables_to_index, FALSE, ById)
       IN  /\ faiss_managers' = r[1]
           /\ files' = r[2]
    /\ response' = Resp("reindex_tables", "", 200, 0, {},
                        [i \in 1..Cardinality(HybridTables) |->
                            Q("get_all_from_table", "itens")], {})

---------------------------------------------------------------------------
(* Specification of the registry's life: serial requests, as the handlers  *)
(* are coroutines on one event loop.                                       *)

\* Index files a first startup may find: none, or what an earlier deployment
\* left, an id possibly more than once.
RECURSIVE SeqsUpTo(_, _)
SeqsUpTo(S, n) ==
    IF n = 0 THEN { <<>> }
    ELSE LET shorter == SeqsUpTo(S, n - 1)
         IN  shorter \cup { Append(s, x) : s \in shorter, x \in S }

OldVec == 0

InitialFiles ==
    { <<>> } \cup
    { [t \in {"itens"} |-> Written(c)] :
        c \in SeqsUpTo({ [id |-> i, vec |-> OldVec] : i \in Ids }, MaxFileEntries) }
    \cup { [t \in {"itens"} |-> Unreadable] }

Init ==
    /\ store = [t \in Tables |-> IF t = "usuarios"
                                    THEN { Row(1, CHOOSE v \in RowValues(t) : v.nome = "Ana") }
                                    ELSE {}]
    /\ faiss_managers = <<>>
    /\ files \in InitialFiles
    /\ up = FALSE
    /\ response = NoResponse
    /\ loop = NoRequests

\* Rows the owning applications write while the service runs: new listings,
\* with text or without.
WrittenValues(t) == { v \in RowValues(t) : v.status \in {"disponivel", "ativo"} }

Next ==
    \/ Startup
    \/ Stop
    \/ \E t \in HybridTables, i \in Ids : \E v \in WrittenValues(t) : StoreWrite(t, i, v)
    \/ \E t \in HybridTables, i \in Ids : StoreDelete(t, i)
    \/ \E t \in TableNames, i \in Ids, failed \in BOOLEAN : add_to_index(t, i, failed)
    \/ \E t \in TableNames : reindex_table(t)
    \/ \E t \in TableNames : reindex_table_killed(t)
    \/ reindex_tables
    \/ \E t \in TableNames : search_items(t, <<"Cam">>, MaxTop, <<>>, ById, ById, {})

Spec == Init /\ [][Next]_vars

\* The service deployed for the first time: the indexes directory is empty.
InitFresh == Init /\ files = <<>>

SpecFresh == InitFresh /\ [][Next]_vars

\* The same service when a rebuild may fail part-way.
NextFailing ==
    \/ Next
    \/ \E handler \in {"reindex_table", "reindex_tables"}, t \in TableNames,
          step \in {"store", "embed", "write"}, partial \in BOOLEAN :
           reindex_failed(handler, t, step, partial)

SpecFailing == InitFresh /\ [][NextFailing]_vars

---------------------------------------------------------------------------
(* Properties of the registry's life, checked under Spec.                  *)

UpsertDone ==
    /\ response.op = "add_to_index"
    /\ response.status = 200
    /\ response.table \in HybridTables

\* C1: after a successful upsert of a row of a hybrid table (add_to_index
\* answers 200), the table's index holds exactly one entry for the row's id,
\* however many it held before.
C1_UpsertLeavesOneEntry ==
    UpsertDone =>
        /\ response.table \in DOMAIN faiss_managers
        /\ EntriesFor(faiss_managers[response.table], response.item_id) = 1

\* A successful upsert of an id the index held twice.
C1_Witness ==
    /\ UpsertDone
    /\ response.had > 1
    /\ EntriesFor(faiss_managers[response.table], response.item_id) = 1

\* C25: from a first deployment (no index file, row ids unique in the
\* store), whatever startups, upserts and rebuilds follow, the index of each
\* table holds at most one entry per id, and so does each index file.
C25_OneEntryPerId ==
    /\ \A t \in DOMAIN faiss_managers :
           Cardinality(IndexIds(faiss_managers[t])) = Len(faiss_managers[t])
    /\ \A t \in DOMAIN files :
           Cardinality(IndexIds(files[t].index)) = Len(files[t].index)

\* An upsert of an id the index held already, in an index of two entries.
C25_Witness ==
    /\ UpsertDone
    /\ response.had = 1
    /\ Len(faiss_managers[response.table]) = 2
    /\ EntriesFor(faiss_managers[response.table], response.item_id) = 1

\* The upsert just answered found no row: the store has none with the id, or
\* the statement that fetches it failed.
UpsertFoundNoRow ==
    /\ response'.op = "add_to_index"
    /\ HasConfig(response'.table)
    /\ \/ response'.item_id \notin RowIds(store[response'.table])
       \/ ~response'.queries[1].ok

\* C11: an upsert on a configured table whose store has no row with the id,
\* or whose row fetch fails, answers 404 and leaves every vector index as it
\* was: an entry the index holds for the id is neither removed nor replaced.
C11_MissingRowLeavesIndex ==
    [][UpsertFoundNoRow => /\ response'.status = 404
                           /\ faiss_managers' = faiss_managers]_vars

\* A 404 for a row that the store holds and the index has an entry for, the
\* fetch having failed; the entry is still there.
C11_Witness ==
    /\ response.op = "add_to_index"
    /\ response.status = 404
    /\ response.table \in HybridTables
    /\ response.table \in DOMAIN faiss_managers
    /\ response.item_id \in RowIds(store[response.table])
    /\ ~response.queries[1].ok
    /\ response.had >= 1
    /\ EntriesFor(faiss_managers[response.table], response.item_id) = response.had

RebuildDone ==
    /\ response.op = "reindex_table"
    /\ response.status = 200
    /\ response.table \in HybridTables

\* The ids of the rows of a table that have text in a declared column.
IdsWithText(table_name) ==
    { r.id : r \in { x \in store[table_name] :
                        \E c \in Range(get_table_config(table_name).columns) :
                            x[c] # NULL } }

BuiltFromStore(t) ==
    /\ response'.status = 200
    /\ \/ response'.op = "startup" /\ ~FileExists(files, t)
       \/ response'.op = "reindex_table" /\ response'.table = t
       \/ response'.op = "reindex_tables"

\* C26: when a build of the index of a hybrid table from the store
\* completes, the file of the table holds exactly the entries of the index
\* just registered, so that a restart loads the same ids; also when the
\* store returned no rows and the file of an earlier build is there.  (With
\* no row and no earlier file there is nothing a restart could load, and no
\* file is asked for.)
C26_BuildPersisted ==
    [][\A t \in HybridTables :
           BuiltFromStore(t) =>
               /\ t \in DOMAIN faiss_managers'
               /\ (FileExists(files, t) \/ store[t] # {}) => FileExists(files', t)
               /\ FileExists(files', t) => files'[t] = Written(faiss_managers'[t])]_vars

\* C27: an upsert survives a restart.  After add_to_index answered 200 on a
\* hybrid table whose file is there, the startup procedure, which loads the
\* file, gives an index that holds the entry the upsert wrote for the id.
C27_UpsertSurvivesRestart ==
    ( /\ UpsertDone
      /\ FileExists(files, response.table)
      /\ files[response.table].complete ) =>
        LET restarted == ForEachTable(<<>>, files, tables_to_index, TRUE, ById)
        IN  /\ ~restarted[3]
            /\ response.table \in DOMAIN restarted[1]
            /\ \A i \in 1..Len(faiss_managers[response.table]) :
                   faiss_managers[response.table][i].id = response.item_id =>
                       faiss_managers[response.table][i] \in Range(restarted[1][response.table])

\* The step is an upsert on a registered hybrid table that fetched a row
\* whose declared text columns are all missing or null.
UpsertOfRowWithoutText ==
    /\ response'.op = "add_to_index"
    /\ response'.table \in HybridTables \cap DOMAIN faiss_managers
    /\ response'.item # {}
    /\ response'.item_id \in RowIds(store[response'.table]) \ IdsWithText(response'.table)

\* C28: a failing upsert leaves the index unchanged.  When the fetched row
\* has no text in any declared column, add_to_index ends in an error and the
\* index, with the entry it held for the id, is as it was before the call.
C28_FailedUpsertLeavesIndex ==
    [][UpsertOfRowWithoutText =>
           /\ response'.status = 500
           /\ faiss_managers' = faiss_managers
           /\ files' = files]_vars

\* A failed upsert of a row without text while the index holds an entry for
\* its id.
C28_Witness ==
    /\ response.op = "add_to_index"
    /\ response.status = 500
    /\ response.table \in HybridTables \cap DOMAIN faiss_managers
    /\ response.item_id \in RowIds(store[response.table]) \ IdsWithText(response.table)
    /\ response.had = 1
    /\ EntriesFor(faiss_managers[response.table], response.item_id) = 1

\* C29: while the service is up and no rebuild is executing, the registry
\* maps exactly the hybrid tables to an index: after startup and after every
\* rebuild, one that ended in an error part-way included; so an upsert on a
\* hybrid table finds its entry.
C29_RegistryHoldsHybridTables ==
    up => DOMAIN faiss_managers = HybridTables

\* The hybrid tables whose persisted file exists and cannot be loaded.
Corrupt(fs) == { t \in HybridTables : FileExists(fs, t) /\ ~fs[t].complete }

\* C13: a startup that finds the file of a hybrid table unreadable rebuilds
\* the index from the store: the startup completes, the table is registered
\* and its index holds the ids of the rows of the table that have text.
C13_CorruptFileRebuilt ==
    [][(~up /\ response'.op = "startup" /\ Corrupt(files) # {}) =>
          /\ up'
          /\ response'.status = 200
          /\ \A t \in Corrupt(files) :
                 /\ t \in DOMAIN faiss_managers'
                 /\ IndexIds(faiss_managers'[t]) = IdsWithText(t)]_vars

\* C14: a process stopped inside save(path) leaves at the path of every
\* table no file, the complete file that was there before, or the complete
\* new file; never a partly written one.
C14_SaveIsAtomic ==
    [][response'.op = "killed" =>
          \A t \in DOMAIN files' :
              \/ files'[t].complete
              \/ (FileExists(files, t) /\ files'[t] = files[t])]_vars

\* C7: a successful upsert that repeats the successful upsert before it, the
\* row unchanged in between, leaves every index as the first one left it.
C7_UpsertIdempotent ==
    [][ (response'.repeat /\ response'.table \in HybridTables)
            => faiss_managers' = faiss_managers ]_vars

\* The second of two successive successful upserts of one row.
C7_Witness ==
    /\ UpsertDone
    /\ response.repeat
    /\ EntriesFor(faiss_managers[response.table], response.item_id) = 1

\* C10: search, upsert and rebuild on a table name without a schema answer
\* 404, issue no store statement and leave the registry, the indexes and
\* the files as they were.
C10_UnknownTableNotFound ==
    [][ ( /\ response' # response
          /\ response'.op \in {"search_items", "add_to_index", "reindex_table"}
          /\ ~HasConfig(response'.table) )
            => /\ response'.status = 404
               /\ response'.queries = <<>>
               /\ UNCHANGED <<faiss_managers, files>> ]_vars

---------------------------------------------------------------------------
(* Specification of the search pipeline: any content of the searched       *)
(* table, any content of the hybrid table's index (stale ids and repeated  *)
(* ids included), then searches.                                           *)

\* The registered index holds at most MaxIndexEntries entries.
MaxIndexEntries == 2

Stores(t) ==
    UNION { { { Row(i, f[i]) : i \in S } : f \in [S -> RowValues(t)] } : S \in SUBSET Ids }

\* The vector an entry of the index carries: that of the text its row had
\* when it was indexed.
EntryVec(i) == IF i = 1 THEN encode("cam") ELSE encode("drill x")

Queries == { <<>>, <<" ">>, <<"Cam">>, <<"drill">> }

FilterStrings ==
    { <<>>,
      <<"status", ":", "Disponivel">>,
      <<"status", ":", "alugado", ",", "ativo">>,
      <<"status", ":", "bogus", ";", "nofilter">>,
      <<"categoria_id", ":", "1">> }

\* The longest list of table names handed to omnisearch.
MaxTables == 2

\* The requests tried with failing statements: with and without query text,
\* with and without a filter some rows meet.
FailingQueries == { <<>>, <<"Cam">> }

FailingFilters == { <<>>, <<"status", ":", "Disponivel">> }

InitSearch ==
    /\ \E t \in Tables : \E rows \in Stores(t) :
           /\ store = [u \in Tables |-> IF u = t THEN rows ELSE {}]
           /\ \E index \in IF t \in HybridTables
                           THEN SeqsUpTo({ [id |-> i, vec |-> EntryVec(i)] : i \in Ids },
                                         MaxIndexEntries)
                           ELSE { <<>> } :
                  faiss_managers = [u \in HybridTables |-> index]
    /\ files = <<>>
    /\ up = TRUE
    /\ response = NoResponse
    /\ loop = NoRequests

\* One search per behaviour: a search changes nothing a later search reads.
NextSearch ==
    /\ response.op = "none"
    /\ \/ \E t \in Tables, q \in Queries, top \in 1..MaxTop, f \in FilterStrings,
             ord \in { ById, Reverse(ById) }, hord \in { ById, Reverse(ById) } :
              search_items(t, q, top, f, ord, hord, {})
       \/ \E tables \in SeqsUpTo(TableNames, MaxTables), q \in FailingQueries,
             f \in FailingFilters :
              omnisearch(q, MaxTop, tables, f, ById, ById)
       \* a search some of whose statements fail
       \/ \E t \in Tables, q \in FailingQueries, f \in FailingFilters,
             fail \in (SUBSET Statements) \ { {} } :
              search_items(t, q, MaxTop, f, ById, ById, fail)

SpecSearch == InitSearch /\ [][NextSearch]_vars

---------------------------------------------------------------------------
(* Properties of one search, checked under SpecSearch.                     *)

\* The compiled predicate set of the answered search.
Compiled(s) == parse_filters(s.filters, get_table_config(response.table))

\* Whether row r meets the compiled predicate entry.
Meets(r, entry) ==
    LET d == entry.filter_data
    IN  IF "values" \in DOMAIN d THEN r[entry.column] \in Range(d.values)
        ELSE IF "value" \in DOMAIN d THEN r[entry.column] = d.value
        ELSE TRUE

\* filteredIds(table, P): the ids of the rows that meet every predicate.
filteredIds(table_name, P) ==
    { r.id : r \in { x \in store[table_name] :
                        \A i \in 1..Len(P) : Meets(x, P[i]) } }

\* The request carried query text.
HasQuery(s) == strip(s.query) # <<>>

NoDuplicates(ids) == \A i, j \in 1..Len(ids) : ids[i] = ids[j] => i = j

\* Position of the first x in ids.
FirstAt(ids, x) == CHOOSE i \in 1..Len(ids) : ids[i] = x /\ \A j \in 1..(i - 1) : ids[j] # x

\* C2: a search with query text and a non-empty compiled predicate set on a
\* hybrid table returns only ids of filteredIds(table, P): no fused id,
\* lexical or semantic, belongs to a row that violates P.
C2_FusedWithinFilter ==
    \A s \in response.search :
        ( /\ HasQuery(s)
          /\ Compiled(s) # <<>>
          /\ response.table \in HybridTables )
            => Range(s.combined) \subseteq filteredIds(response.table, Compiled(s))

\* C3: the filtered nearest-neighbour search answers no id when the allowed
\* ids are the empty list, whatever the index holds and whatever k is; so a
\* search whose filters no row satisfies gets no semantic id.
C3_EmptyAllowedIsEmpty ==
    \A s \in response.search :
        /\ ( /\ s.consulted
             /\ Compiled(s) # <<>>
             /\ filteredIds(response.table, Compiled(s)) = {} )
               => s.semantic_ids = <<>>
        /\ \A t \in DOMAIN faiss_managers : \A k \in 1..MaxTop :
               Range(search_text_with_filter(faiss_managers[t], lower(s.query),
                                             { <<>> }, k)) \subseteq {-1}

\* The semantic ids of the answered search when the statement that fetches
\* the filtered ids succeeds.
SemanticIdsOf(s) ==
    LET P == Compiled(s)
        id_matrix == search_text_with_filter(faiss_managers[response.table],
                         lower(s.query),
                         IF P = <<>> THEN {}
                         ELSE { get_filtered_ids(response.table, P, s.ord) }, s.top)
    IN  SeqFilter(id_matrix, Range(id_matrix) \ {-1})

\* Every store statement a retriever of the answered search issued failed:
\* the lexical one and, where the index is asked with filters, the one that
\* fetches the filtered ids.
BothRetrieversFailed(s) ==
    /\ "lexical" \in s.fail
    /\ s.consulted => (Compiled(s) # <<>> /\ "filter" \in s.fail)

\* C12: a search during which store statements fail still answers 200; a
\* failing lexical statement gives an empty lexical list while the semantic
\* ids are returned as without the failure; a failing hydration, or the
\* failure of both retrievers, gives an empty results list.
C12_StoreFailureDegrades ==
    \A s \in response.search :
        s.fail # {} =>
            /\ response.status = 200
            /\ "lexical" \in s.fail =>
                   /\ s.lexical_ids = <<>>
                   /\ (s.consulted /\ "filter" \notin s.fail)
                          => s.semantic_ids = SemanticIdsOf(s)
            /\ "hydrate" \in s.fail => s.results = <<>>
            /\ BothRetrieversFailed(s) => s.results = <<>>

\* C16: omnisearch answers one entry per table name of its list: under the
\* name of a configured table what a search of that table alone answers,
\* under the name of a table without configuration an error object with
\* status 404; a table without configuration, wherever it stands in the
\* list, takes no entry away from the others.
C16_OmnisearchPerTable ==
    response.op = "omnisearch" =>
        \A o \in response.item :
            /\ response.status = 200
            /\ DOMAIN o.result = Range(o.tables)
            /\ \A t \in Range(o.tables) :
                   IF HasConfig(t)
                   THEN o.result[t] =
                           [results |-> (CHOOSE s \in search_table(t,
                                [query |-> o.query, top |-> o.top, filters |-> o.filters,
                                 ord |-> o.ord, fail |-> {}], o.hord).search : TRUE).results]
                   ELSE o.result[t].status_code = 404

\* An omnisearch over a table without configuration followed by a
\* configured one, which is reported with a row.
C16_Witness ==
    /\ response.op = "omnisearch"
    /\ \E o \in response.item :
           /\ Len(o.tables) = 2
           /\ ~HasConfig(o.tables[1])
           /\ HasConfig(o.tables[2])
           /\ o.result[o.tables[1]].status_code = 404
           /\ o.result[o.tables[2]].results # <<>>

\* C4: the fused list holds every id of the lexical or the semantic list
\* once, the lexical ids in lexical order, then the ids only the semantic
\* list holds, in semantic order.
C4_FusionOrderedUnion ==
    \A s \in response.search :
        /\ NoDuplicates(s.combined)
        /\ Range(s.combined) = Range(s.lexical_ids) \cup Range(s.semantic_ids)
        /\ \A i, j \in 1..Len(s.combined) :
               i < j =>
                   LET a == s.combined[i]
                       b == s.combined[j]
                   IN  /\ b \in Range(s.lexical_ids) => a \in Range(s.lexical_ids)
                       /\ (a \in Range(s.lexical_ids) /\ b \in Range(s.lexical_ids))
                              => FirstAt(s.lexical_ids, a) < FirstAt(s.lexical_ids, b)
                       /\ (a \notin Range(s.lexical_ids) /\ b \notin Range(s.lexical_ids))
                              => FirstAt(s.semantic_ids, a) < FirstAt(s.semantic_ids, b)

\* A fusion whose semantic list starts with an id the lexical list lacks and
\* goes on with one the lexical list holds.
C4_Witness ==
    \E s \in response.search :
        /\ s.lexical_ids # <<>>
        /\ Len(s.semantic_ids) = 2
        /\ s.semantic_ids[1] \notin Range(s.lexical_ids)
        /\ s.semantic_ids[2] \in Range(s.lexical_ids)
        /\ s.combined = Append(s.lexical_ids, s.semantic_ids[1])

\* C8: the ids of the response rows are the fused ids that have a row in
\* the store, in fusion order, whatever order the store returned the rows
\* in; a fused id without a row is left out.  (A hydration whose statement
\* fails is the case of C12.)
C8_HydrationInFusionOrder ==
    \A s \in response.search :
        /\ response.status = 200
        /\ "hydrate" \notin s.fail =>
               s.results = SeqFilter(s.combined, RowIds(store[response.table]))

\* A search whose fused list holds two ids, the first one without a row.
C8_Witness ==
    \E s \in response.search :
        /\ Len(s.combined) = 2
        /\ s.combined[1] \notin RowIds(store[response.table])
        /\ s.results = << s.combined[2] >>

\* The fields no response row may hold.
Denylist == {"embedding", "created_at", "updated_at", "last_embedding_generated_at"}

\* C23: a response row of a search holds none of the fields embedding,
\* created_at, updated_at, last_embedding_generated_at, and holds every other
\* field of the row the store returned, with its value.
C23_RowsWithoutDenylist ==
    \A s \in response.search :
        /\ Len(s.rows) = Len(s.results)
        /\ \A i \in 1..Len(s.rows) :
               /\ DOMAIN s.rows[i] \cap Denylist = {}
               /\ \E item \in store[response.table] :
                      /\ item.id = s.results[i]
                      /\ DOMAIN s.rows[i] = DOMAIN item \ Denylist
                      /\ \A f \in DOMAIN s.rows[i] : s.rows[i][f] = item[f]

\* A search that answers a row the store holds with all four fields.
C23_Witness ==
    \E s \in response.search :
        /\ s.rows # <<>>
        /\ \E item \in store[response.table] :
               /\ item.id = s.results[1]
               /\ Denylist \subseteq DOMAIN item
               /\ DOMAIN s.rows[1] = DOMAIN item \ Denylist

\* C24: the marker -1 of an empty slot never reaches fusion.  Whatever the
\* index holds and whatever top is, the semantic ids handed to fusion hold no
\* -1 and are at most top, and the fused and answered ids hold no -1; when
\* the index is searched without filter and holds fewer than top entries,
\* the semantic ids are all the ids it holds.
C24_NoMarkerReachesFusion ==
    \A s \in response.search :
        /\ -1 \notin Range(s.semantic_ids) \cup Range(s.combined) \cup Range(s.results)
        /\ Len(s.semantic_ids) <= s.top
        /\ s.semantic_ids = SeqFilter(s.id_matrix, Range(s.id_matrix) \ {-1})
        /\ ( /\ s.consulted
             /\ Compiled(s) = <<>>
             /\ Len(faiss_managers[response.table]) < s.top )
               => /\ Range(s.semantic_ids) = IndexIds(faiss_managers[response.table])
                  /\ Len(s.semantic_ids) = Len(faiss_managers[response.table])

\* A search of an index of one entry for two neighbours: the index answers
\* the entry and a marker, fusion gets the entry alone.
C24_Witness ==
    \E s \in response.search :
        /\ s.consulted /\ Compiled(s) = <<>> /\ s.top = 2
        /\ Len(faiss_managers[response.table]) = 1
        /\ s.id_matrix = << faiss_managers[response.table][1].id, -1 >>
        /\ s.semantic_ids = << faiss_managers[response.table][1].id >>

\* C9: a search without query text consults no index, has no semantic id,
\* and its fused ids are filteredIdsLimited(table, P, top): ids of rows that
\* meet P, each once, as many as top allows.
C9_NoQueryFusedAreFiltered ==
    \A s \in response.search :
        ~HasQuery(s) =>
            /\ s.semantic_ids = <<>>
            /\ ~s.consulted
            /\ NoDuplicates(s.combined)
            /\ Range(s.combined) \subseteq filteredIds(response.table, Compiled(s))
            /\ LET n == Cardinality(filteredIds(response.table, Compiled(s)))
               IN  Len(s.combined) = IF n < s.top THEN n ELSE s.top


---------------------------------------------------------------------------
(* Specification of requests in flight together.  Every handler of         *)
(* app/main.py is a coroutine run by one event loop: a request waits for   *)
(* its get_database dependency, then its handler runs from the point where *)
(* the loop resumes it to the point where it next suspends.  The steps of  *)
(* the handlers are the accesses to faiss_managers and to an index.        *)

\* At most MaxTasks requests are in flight.
MaxTasks == 2

Kinds == {"search_items", "add_to_index", "reindex_table"}

\* conn is the request's DatabaseConnector.connection: "none" before connect
\* and after a failed one, then "open", then "closed".  exit is how the
\* handler ended: "return", "http_error" (HTTPException), "exception" (any
\* other) or "no_connection" (get_database raised before the handler ran).
NewTask(kind, table_name, item_id) ==
    [kind |-> kind, table |-> table_name, item_id |-> item_id, pc |-> "accepted",
     found |-> TRUE, torn |-> FALSE, conn |-> "none", exit |-> ""]

\* The handler of task ended: control goes back to the dependency.
Exit(task, how) == [task EXCEPT !.pc = "returned", !.exit = how]

\* A dependency without try/finally: the code after the yield runs only
\* when the handler returned.
disconnects_after_return(how) == how = "return"

\* get_database: `try: yield db finally: db.disconnect()`.
disconnects_after(how) == how \in {"return", "http_error", "exception"}

\* A handler that awaits at every step.
suspends_at_each_step(kind, pc) == TRUE

\* Whether the coroutine hands control back to the event loop after the step
\* taken at pc.  Depends(get_database) is resolved in the thread pool, which
\* the request awaits; the bodies of the handlers await nothing that
\* suspends.
Suspends(kind, pc) == pc = "accepted"

\* Task t may take a step: the loop is free or is running t.
Runnable(t, kind, pc) ==
    /\ t \in 1..Len(loop.tasks)
    /\ loop.running \in {0, t}
    /\ loop.tasks[t].kind = kind
    /\ loop.tasks[t].pc = pc

\* The loop after task t took a step from its pc and became task.
Resume(t, task) ==
    [running |-> IF \/ Suspends(loop.tasks[t].kind, loop.tasks[t].pc)
                    \/ task.pc \in {"returned", "done"}
                 THEN 0 ELSE t,
     tasks |-> [loop.tasks EXCEPT ![t] = task]]

\* A request arrives.
Accept(kind, table_name, item_id) ==
    /\ loop.running = 0
    /\ Len(loop.tasks) < MaxTasks
    /\ loop' = [loop EXCEPT !.tasks = Append(@, NewTask(kind, table_name, item_id))]
    /\ UNCHANGED <<store, faiss_managers, files, up, response>>

\* get_database up to the yield: db.connect(), and when it left no
\* connection, db.disconnect() and the exception that ends the request.
Connect(t, connected) ==
    /\ \E kind \in Kinds : Runnable(t, kind, "accepted")
    /\ loop' = Resume(t, IF connected
                         THEN [loop.tasks[t] EXCEPT !.pc = "body", !.conn = "open"]
                         ELSE [loop.tasks[t] EXCEPT !.pc = "done",
                                                    !.exit = "no_connection"])
    /\ UNCHANGED <<store, faiss_managers, files, up, response>>

\* get_database after the yield: the handler has returned or raised.
Release(t) ==
    /\ \E kind \in Kinds : Runnable(t, kind, "returned")
    /\ loop' = Resume(t, [loop.tasks[t] EXCEPT
                   !.pc = "done",
                   !.conn = IF disconnects_after(loop.tasks[t].exit)
                            THEN "closed" ELSE @])
    /\ UNCHANGED <<store, faiss_managers, files, up, response>>

\* reindex_table: faiss_managers.pop(table_config.name, None)
Evict(t) ==
    /\ Runnable(t, "reindex_table", "body")
    /\ IF ~HasConfig(loop.tasks[t].table)
       \* get_table_config raises
       THEN /\ loop' = Resume(t, Exit(loop.tasks[t], "exception"))
            /\ UNCHANGED faiss_managers
       ELSE /\ LET table_config == get_table_config(loop.tasks[t].table)
               IN  faiss_managers' = IF table_config.hybrid
                                     THEN Pop(faiss_managers, table_config.name)
                                     ELSE faiss_managers
            /\ loop' = Resume(t, [loop.tasks[t] EXCEPT !.pc = "evicted"])
    /\ UNCHANGED <<store, files, up, response>>

\* reindex_table: init_index_for_table(table_config, db, allow_load=False)
Register(t) ==
    /\ Runnable(t, "reindex_table", "evicted")
    /\ LET r == init_index_for_table(faiss_managers, files,
                     get_table_config(loop.tasks[t].table), FALSE, ById)
       IN  /\ faiss_managers' = r[1]
           /\ files' = r[2]
    /\ loop' = Resume(t, Exit(loop.tasks[t], "return"))
    /\ UNCHANGED <<store, up, response>>

\* add_to_index up to and including remove_ids of add_or_update_item.
RemoveOld(t) ==
    /\ Runnable(t, "add_to_index", "body")
    /\ LET task == loop.tasks[t]
           table_config == get_table_config(task.table)
           item_list == get_with_id(task.item_id, task.table, ById)
       IN  IF ~HasConfig(task.table)
           THEN /\ loop' = Resume(t, Exit(task, "http_error"))
                /\ UNCHANGED faiss_managers
           ELSE IF item_list = <<>>
           THEN /\ loop' = Resume(t, Exit(task, "http_error"))
                /\ UNCHANGED faiss_managers
           ELSE IF ~table_config.hybrid
           THEN /\ loop' = Resume(t, Exit(task, "return"))
                /\ UNCHANGED faiss_managers
           ELSE IF task.table \notin DOMAIN faiss_managers
           THEN /\ loop' = Resume(t, [Exit(task, "exception") EXCEPT !.found = FALSE])
                /\ UNCHANGED faiss_managers
           ELSE IF ~CanEmbed(item_list[1], table_config.columns)
           THEN /\ loop' = Resume(t, Exit(task, "exception"))
                /\ UNCHANGED faiss_managers
           ELSE /\ faiss_managers' = [faiss_managers EXCEPT ![task.table] =
                                         remove_ids(@, task.item_id)]
                /\ loop' = Resume(t, [task EXCEPT !.pc = "removed"])
    /\ UNCHANGED <<store, files, up, response>>

\* add_or_update_item: self._add_text(text_to_embed, item_id)
AddNew(t) ==
    /\ Runnable(t, "add_to_index", "removed")
    /\ LET task == loop.tasks[t]
           item == get_with_id(task.item_id, task.table, ById)[1]
           text == Join(texts_to_join(item, get_table_config(task.table).columns))
       IN  faiss_managers' =
               IF task.table \in DOMAIN faiss_managers
               THEN [faiss_managers EXCEPT ![task.table] = add_text(@, text, task.item_id)]
               ELSE faiss_managers
    /\ loop' = Resume(t, Exit(loop.tasks[t], "return"))
    /\ UNCHANGED <<store, files, up, response>>

\* search_items: the lexical statement.
Lexical(t) ==
    /\ Runnable(t, "search_items", "body")
    /\ loop' = Resume(t, IF ~HasConfig(loop.tasks[t].table)
                         THEN Exit(loop.tasks[t], "http_error")
                         ELSE [loop.tasks[t] EXCEPT !.pc = "lexical"])
    /\ UNCHANGED <<store, faiss_managers, files, up, response>>

\* search_items: `if table_name in faiss_managers` and the search of the
\* index found.  torn tells that the index read is one an upsert has taken
\* the old entry out of and not yet put the new one in.
Semantic(t) ==
    /\ Runnable(t, "search_items", "lexical")
    /\ loop' = Resume(t, [loop.tasks[t] EXCEPT
                   !.pc = "semantic",
                   !.found = loop.tasks[t].table \in DOMAIN faiss_managers,
                   !.torn = \E u \in 1..Len(loop.tasks) :
                               /\ loop.tasks[u].kind = "add_to_index"
                               /\ loop.tasks[u].table = loop.tasks[t].table
                               /\ loop.tasks[u].pc = "removed"])
    /\ UNCHANGED <<store, faiss_managers, files, up, response>>

\* search_items: fusion and hydration.
Hydrate(t) ==
    /\ Runnable(t, "search_items", "semantic")
    /\ loop' = Resume(t, Exit(loop.tasks[t], "return"))
    /\ UNCHANGED <<store, faiss_managers, files, up, response>>

\* The service after startup over a store with one row of each table.
InitConc ==
    /\ store = [t \in Tables |-> { Row(1, CHOOSE v \in WrittenValues(t) :
                                             CanEmbed(v, get_table_config(t).columns)) }]
    /\ faiss_managers = ForEachTable(<<>>, <<>>, tables_to_index, TRUE, ById)[1]
    /\ files = ForEachTable(<<>>, <<>>, tables_to_index, TRUE, ById)[2]
    /\ up = TRUE
    /\ response = NoResponse
    /\ loop = NoRequests

\* The steps of the request in slot t.
TaskStep(t) ==
    \/ \E connected \in BOOLEAN : Connect(t, connected)
    \/ Evict(t)
    \/ Register(t)
    \/ RemoveOld(t)
    \/ AddNew(t)
    \/ Lexical(t)
    \/ Semantic(t)
    \/ Hydrate(t)
    \/ Release(t)

NextConc ==
    \/ \E kind \in Kinds, table_name \in TableNames, item_id \in Ids :
           Accept(kind, table_name, IF kind = "add_to_index" THEN item_id ELSE 0)
    \/ \E t \in 1..MaxTasks : \E connected \in BOOLEAN : Connect(t, connected)
    \/ \E t \in 1..MaxTasks : Release(t)
    \/ \E t \in 1..MaxTasks : Evict(t)
    \/ \E t \in 1..MaxTasks : Register(t)
    \/ \E t \in 1..MaxTasks : RemoveOld(t)
    \/ \E t \in 1..MaxTasks : AddNew(t)
    \/ \E t \in 1..MaxTasks : Lexical(t)
    \/ \E t \in 1..MaxTasks : Semantic(t)
    \/ \E t \in 1..MaxTasks : Hydrate(t)

SpecConc == InitConc /\ [][NextConc]_vars

\* One request for each way a handler ends: a search and a rebuild that
\* return, an upsert that returns, an upsert of a row the store does not
\* hold (404), a rebuild of a table without configuration (exception).
Requests ==
    { [kind |-> "search_items", table |-> "itens", item_id |-> 0],
      [kind |-> "reindex_table", table |-> "itens", item_id |-> 0],
      [kind |-> "reindex_table", table |-> "pedidos", item_id |-> 0],
      [kind |-> "add_to_index", table |-> "itens", item_id |-> 1],
      [kind |-> "add_to_index", table |-> "itens", item_id |-> MaxId] }

NextRequests ==
    \/ \E r \in Requests : Accept(r.kind, r.table, r.item_id)
    \/ \E t \in 1..MaxTasks : \E connected \in BOOLEAN : Connect(t, connected)
    \/ \E t \in 1..MaxTasks : Release(t)
    \/ \E t \in 1..MaxTasks : Evict(t)
    \/ \E t \in 1..MaxTasks : Register(t)
    \/ \E t \in 1..MaxTasks : RemoveOld(t)
    \/ \E t \in 1..MaxTasks : AddNew(t)
    \/ \E t \in 1..MaxTasks : Lexical(t)
    \/ \E t \in 1..MaxTasks : Semantic(t)
    \/ \E t \in 1..MaxTasks : Hydrate(t)

\* The event loop runs every callback that is ready, and the thread pool
\* every dependency handed to it: a request that can take a step takes it.
SpecConcFair ==
    InitConc /\ [][NextRequests]_vars /\ \A t \in 1..MaxTasks : WF_vars(TaskStep(t))

\* The handler of the task is between two of its accesses to the registry
\* or to an index.
Midway(task) == task.pc \in {"evicted", "removed", "lexical", "semantic"}

Writes(task) == task.kind \in {"add_to_index", "reindex_table"}

\* C6: with requests in flight together, while an upsert or a rebuild of a
\* table is between its steps no other request on the table is between its
\* own; no search or upsert of a hybrid table finds the registry entry
\* missing; and no search reads an index an upsert has half updated.
C6_WritersExclude ==
    \A a \in 1..Len(loop.tasks) :
        /\ \A b \in 1..Len(loop.tasks) :
               ( /\ a # b
                 /\ loop.tasks[a].table = loop.tasks[b].table
                 /\ Writes(loop.tasks[a])
                 /\ Midway(loop.tasks[a]) )
                   => ~Midway(loop.tasks[b])
        /\ loop.tasks[a].table \in HybridTables => loop.tasks[a].found
        /\ ~loop.tasks[a].torn

\* A rebuild of the hybrid table has evicted the index and not yet
\* registered the new one while a search of the table waits for the loop.
C6_Witness ==
    \E a, b \in 1..Len(loop.tasks) :
        /\ loop.tasks[a].kind = "reindex_table"
        /\ loop.tasks[a].pc = "evicted"
        /\ loop.tasks[a].table \in HybridTables
        /\ loop.tasks[b].kind = "search_items"
        /\ loop.tasks[b].table = loop.tasks[a].table
        /\ loop.tasks[b].pc = "body"

\* The connections of the answered requests: none is open, and a request
\* whose connection attempt failed never had one.
NoConnectionLeft ==
    \A t \in 1..Len(loop.tasks) :
        /\ loop.tasks[t].pc = "done" => loop.tasks[t].conn # "open"
        /\ loop.tasks[t].exit = "no_connection" => loop.tasks[t].conn = "none"
        /\ loop.tasks[t].pc \notin {"accepted", "done"} => loop.tasks[t].conn = "open"

\* C15: each request opens its own connection, and the connection is closed
\* on every way out of the request: return, HTTP error, any other
\* exception; a failed connection attempt leaves no connection open.  No
\* answered request holds an open connection, and every connection opened
\* is closed in the end.
C15_ConnectionReleased ==
    /\ []NoConnectionLeft
    /\ \A t \in 1..MaxTasks :
           (t \in 1..Len(loop.tasks) /\ loop.tasks[t].conn = "open")
               ~> (t \in 1..Len(loop.tasks) /\ loop.tasks[t].conn = "closed")

\* Two requests answered: one whose handler raised an exception other than
\* an HTTP error, its connection closed, and one whose handler raised 404,
\* its connection closed.
C15_Witness ==
    \E a, b \in 1..Len(loop.tasks) :
        /\ loop.tasks[a].pc = "done" /\ loop.tasks[a].exit = "exception"
        /\ loop.tasks[a].conn = "closed"
        /\ loop.tasks[b].pc = "done" /\ loop.tasks[b].exit = "http_error"
        /\ loop.tasks[b].conn = "closed"

---------------------------------------------------------------------------
(* Specification of the filter compiler: FilterHandler.parse_filters on    *)
(* the filter strings a client can send, clause by clause.                 *)

\* A filter string holds at most MaxClauses clauses.
MaxClauses == 3
\* The value of an "in" clause holds at most MaxTokens tokens.
MaxTokens == 2

\* A TableConfig that declares what Config.tables_to_index does not: a range
\* and a list over integers, and distance filters with no latitude and
\* longitude column, one of them not of type geo.
sample_table ==
    [name |-> "amostras", columns |-> <<"nome">>, hybrid |-> FALSE,
     filters |-> << FilterConfig("quantidade", "range", "int", <<>>),
                    FilterConfig("codigo", "in", "int", <<>>),
                    FilterConfig("local", "distance", "geo", <<>>),
                    FilterConfig("raio", "distance", "decimal", <<>>) >>,
     latitude_column |-> NULL, longitude_column |-> NULL]

\* A clause as the client writes it: the column, the form of the value and
\* the tokens of the value.
Clause(column, form, tokens) == [column |-> column, form |-> form, tokens |-> tokens]

\* sep.join(parts)
RECURSIVE JoinWith(_, _)
JoinWith(parts, sep) ==
    IF parts = <<>> THEN <<>>
    ELSE IF Len(parts) = 1 THEN parts[1]
    ELSE parts[1] \o << sep >> \o JoinWith(Tail(parts), sep)

ValueOf(c) ==
    CASE c.form = "lo-hi" -> c.tokens[1] \o << "-" >> \o c.tokens[2]
      [] c.form = "lo-"   -> c.tokens[1] \o << "-" >>
      [] c.form = "-hi"   -> << "-" >> \o c.tokens[1]
      [] OTHER            -> JoinWith(c.tokens, ",")

ClauseText(c) ==
    IF c.form = "malformed" THEN c.tokens[1] ELSE << c.column, ":" >> \o ValueOf(c)

\* The filters parameter of the request.
FiltersParam(clauses) ==
    JoinWith([i \in 1..Len(clauses) |-> ClauseText(clauses[i])], ";")

\* Tokens of a range value: two the data type reads, one it does not.
RangeTokens(data_type) ==
    CASE data_type = "int"     -> { <<"1">>, <<"2">>, <<"x">> }
      [] data_type = "decimal" -> { <<"1">>, <<"1.5">>, <<"x">> }
      [] data_type = "date"    -> { <<"2024", "-", "01", "-", "01">>,
                                    <<"2024", "-", "12", "-", "31">>, <<"x">> }
      [] OTHER                 -> {}

\* Tokens of a list value: in capitals, between blanks, unknown, empty, a
\* number.
ListTokens == { <<"Disponivel">>, <<" ", "alugado", " ">>, <<"bogus">>, <<>>, <<"1">> }

\* Tokens of a distance value, for the latitude, the longitude and the
\* radius: in range, at the limit, beyond it, not a number.
DistanceTokens(part) ==
    CASE part = "lat" -> { <<"1">>, <<"90">>, <<"91">>, <<"-", "91">>, <<"nan">>, <<"x">> }
      [] part = "lon" -> { <<"1">>, <<"180">>, <<"181">>, <<"nan">> }
      [] OTHER        -> { <<"1">>, <<"0">>, <<"-", "1">>, <<"nan">>, <<"x">> }

\* The clauses tried on the column of a filter descriptor.
ClausesFor(fc) ==
    CASE fc.filter_type = "range" ->
            { Clause(fc.column, "lo-hi", << lo, hi >>) :
                lo \in RangeTokens(fc.data_type), hi \in RangeTokens(fc.data_type) }
            \cup { Clause(fc.column, form, << t >>) :
                     form \in {"lo-", "-hi", "single"}, t \in RangeTokens(fc.data_type) }
      [] fc.filter_type = "in" ->
            { Clause(fc.column, "list", ts) : ts \in SeqsUpTo(ListTokens, MaxTokens) }
      [] fc.filter_type = "distance" ->
            { Clause(fc.column, "distance", << a, b, c >>) :
                a \in DistanceTokens("lat"), b \in DistanceTokens("lon"),
                c \in DistanceTokens("radius") }
            \cup { Clause(fc.column, "distance", << <<"1">>, <<"1">> >>),
                   Clause(fc.column, "distance", << <<"1">>, <<"1">>, <<"1">>, <<"1">> >>) }
      [] OTHER ->
            { Clause(fc.column, "single", << t >>) : t \in { <<"1">>, <<"x">> } }

Clauses(table_config) ==
    UNION { ClausesFor(table_config.filters[i]) : i \in 1..Len(table_config.filters) }

\* Clauses of a longer filter string on itens: without ':', on a column the
\* schema does not declare, with a value that does not parse, and good ones.
SampleClauses ==
    { Clause("", "malformed", << <<"status">> >>),
      Clause("cor", "single", << <<"azul">> >>),
      Clause("status", "list", << <<"bogus">> >>),
      Clause("status", "list", << <<"Disponivel">> >>),
      Clause("status", "list", << <<"alugado">> >>),
      Clause("categoria_id", "single", << <<"1">> >>),
      Clause("preco_diario", "lo-hi", << <<"1">>, <<"2">> >>) }

\* A query text holds at most MaxLexemes lexemes.
MaxLexemes == 5

\* The query texts: letters, words and blanks in any order.
QueryTexts == SeqsUpTo({"a", "bc", " "}, MaxLexemes)

FilterRequests ==
    { [table_config |-> get_table_config("itens"), clauses |-> cs, query |-> <<"cam">>] :
        cs \in SeqsUpTo(SampleClauses, MaxClauses) }
    \cup { [table_config |-> get_table_config("itens"), clauses |-> <<>>, query |-> q] :
             q \in QueryTexts }
    \cup UNION { { [table_config |-> cfg, clauses |-> << c >>, query |-> <<"cam">>] :
                     c \in Clauses(cfg) } :
                 cfg \in Range(tables_to_index) \cup { sample_table } }

\* A request with filters has arrived.
InitFilters ==
    /\ store = [t \in Tables |-> {}]
    /\ faiss_managers = <<>>
    /\ files = <<>>
    /\ up = TRUE
    /\ loop = NoRequests
    /\ \E r \in FilterRequests :
           response = [NoResponse EXCEPT !.op = "received",
                                         !.table = r.table_config.name,
                                         !.item = { r }]

\* search_items, lines 289-297: the filters of the request are compiled, and
\* the statements of the connector built from them and from the query text.
ParseRequestFilters ==
    /\ response.op = "received"
    /\ \E r \in response.item :
           LET filters_param == FiltersParam(r.clauses)
               parsed == parse_filters(filters_param, r.table_config)
           IN  response' = Resp("parse_filters", r.table_config.name, 200, 0,
                                { [table_config |-> r.table_config,
                                   clauses |-> r.clauses,
                                   filters_param |-> filters_param,
                                   query |-> r.query,
                                   parsed |-> parsed,
                                   sql |-> build_filter_conditions(parsed),
                                   statements |->
                                       [fn \in {"search_fulltext",
                                                "search_fulltext_with_filters",
                                                "get_filtered_ids", "get_all_with_filters"} |->
                                           sql_query(fn, r.table_config.columns, r.query,
                                                     parsed, MaxTop)]] },
                                <<>>, {})
    /\ UNCHANGED <<store, faiss_managers, files, up, loop>>

NextFilters == ParseRequestFilters

SpecFilters == InitFilters /\ [][NextFilters]_vars

---------------------------------------------------------------------------
(* Properties of the filter compiler, checked under SpecFilters.           *)

\* The compilations answered: none before the compiler has run.
Compilations == IF response.op = "parse_filters" THEN response.item ELSE {}

IsDeclared(table_config, column) ==
    \E i \in 1..Len(table_config.filters) : table_config.filters[i].column = column

\* The request holds the one clause c, on a column declared with the kind.
OneClause(r, kind) ==
    /\ Len(r.clauses) = 1
    /\ r.clauses[1].form # "malformed"
    /\ IsDeclared(r.table_config, r.clauses[1].column)
    /\ FilterConfigOf(r.table_config, r.clauses[1].column).filter_type = kind

\* What the clause compiles to when it is the only clause of the string.
Alone(c, table_config) == parse_filters(ClauseText(c), table_config)

\* C17, as stated: whatever the filter string, a clause without ':', on a
\* column the schema does not declare, or with a value that does not parse is
\* left out and the request goes on, and every other clause compiles to
\* exactly the predicate it compiles to when it is the only clause.
C17_EveryClauseAsAlone ==
    \A r \in Compilations :
        /\ response.status = 200
        /\ \A i \in 1..Len(r.parsed) :
               \E k \in 1..Len(r.clauses) :
                   Alone(r.clauses[k], r.table_config) = << r.parsed[i] >>
        /\ \A k \in 1..Len(r.clauses) :
               Alone(r.clauses[k], r.table_config) # <<>> =>
                   \E i \in 1..Len(r.parsed) :
                       Alone(r.clauses[k], r.table_config) = << r.parsed[i] >>

\* C17, amended: the result is an association from column to predicate, so
\* of the clauses that compile and name one column the last one gives the
\* predicate of the column; a clause that does not compile is left out, the
\* request goes on, and every column of a compiling clause has a predicate:
\* the one its last compiling clause compiles to alone.
C17_TolerantPerClause ==
    \A r \in Compilations :
        /\ response.status = 200
        /\ \A i, j \in 1..Len(r.parsed) : r.parsed[i].column = r.parsed[j].column => i = j
        /\ \A i \in 1..Len(r.parsed) :
               \E k \in 1..Len(r.clauses) :
                   /\ Alone(r.clauses[k], r.table_config) = << r.parsed[i] >>
                   /\ \A l \in (k + 1)..Len(r.clauses) :
                          \/ Alone(r.clauses[l], r.table_config) = <<>>
                          \/ r.clauses[l].column # r.parsed[i].column
        /\ \A k \in 1..Len(r.clauses) :
               Alone(r.clauses[k], r.table_config) # <<>> =>
                   \E i \in 1..Len(r.parsed) : r.parsed[i].column = r.clauses[k].column

\* A string of three clauses, the first without ':' and the last with a
\* value that does not parse: the clause between them is the whole result.
C17_Witness ==
    \E r \in Compilations :
        /\ Len(r.clauses) = 3
        /\ r.clauses[1].form = "malformed"
        /\ r.clauses[2].column = "categoria_id"
        /\ r.clauses[3].tokens = << <<"bogus">> >>
        /\ r.parsed = Alone(r.clauses[2], r.table_config)
        /\ Len(r.parsed) = 1

\* Tokens the data type reads, and what each one stands for.
ValidRangeTokens(data_type) == RangeTokens(data_type) \ { <<"x">> }

TokenValue(token, data_type) ==
    CASE data_type = "int"     -> IF token = <<"1">> THEN 1 ELSE 2
      [] data_type = "decimal" -> IF token = <<"1">> THEN Float(10) ELSE Float(15)
      [] data_type = "date"    -> IF token[3] = "01" THEN "2024-01-01 00:00:00"
                                  ELSE "2024-12-31 00:00:00"

ExpectedRange(c, data_type) ==
    CASE c.form = "lo-hi" -> [min |-> TokenValue(c.tokens[1], data_type),
                              max |-> TokenValue(c.tokens[2], data_type)]
      [] c.form = "lo-"   -> [min |-> TokenValue(c.tokens[1], data_type)]
      [] c.form = "-hi"   -> [max |-> TokenValue(c.tokens[1], data_type)]
      [] OTHER            -> [exact |-> TokenValue(c.tokens[1], data_type)]

\* C18: on a range descriptor of type int, decimal or date, with tokens the
\* type reads, lo-hi compiles to {min, max}, lo- to {min}, -hi to {max} and a
\* single token to {exact}, dates such as 2024-01-01 included.
C18_RangeForms ==
    \A r \in Compilations :
        OneClause(r, "range") =>
            LET c  == r.clauses[1]
                fc == FilterConfigOf(r.table_config, c.column)
            IN  Range(c.tokens) \subseteq ValidRangeTokens(fc.data_type) =>
                    /\ Len(r.parsed) = 1
                    /\ r.parsed[1].filter_data = ExpectedRange(c, fc.data_type)

\* Whether a token of a list survives: not empty, read by the data type and,
\* for an enum with an allow-list, a member of it whatever its case.
Survives(token, fc) ==
    LET v == Str(lower(strip(token)))
    IN  /\ v # ""
        /\ convert_value(v, fc.data_type) # {}
        /\ (fc.data_type = "enum" /\ fc.valid_enum_values # <<>>) =>
               \E i \in 1..Len(fc.valid_enum_values) : Lower(fc.valid_enum_values[i]) = v

ExpectedValues(tokens, fc) ==
    LET kept == SeqFilter(tokens, { t \in Range(tokens) : Survives(t, fc) })
    IN  [i \in 1..Len(kept) |->
            CHOOSE x \in convert_value(Str(lower(strip(kept[i]))), fc.data_type) : TRUE]

\* C19: an "in" clause compiles to the list of its surviving tokens, in the
\* order written; with no survivor the clause is left out.  No compiled
\* predicate holds an empty list and no condition is an IN over no value.
C19_InListSurvivors ==
    \A r \in Compilations :
        /\ OneClause(r, "in") =>
               LET c  == r.clauses[1]
                   fc == FilterConfigOf(r.table_config, c.column)
                   expected == ExpectedValues(c.tokens, fc)
               IN  IF expected = <<>> THEN r.parsed = <<>>
                   ELSE /\ Len(r.parsed) = 1
                        /\ r.parsed[1].filter_data = [values |-> expected]
        /\ \A i \in 1..Len(r.parsed) :
               "values" \in DOMAIN r.parsed[i].filter_data =>
                   r.parsed[i].filter_data.values # <<>>
        /\ \A i \in 1..Len(r.sql.conditions) :
               r.sql.conditions[i].op = "in" => r.sql.conditions[i].n > 0

\* A list of an unknown token and a known one between blanks: the known
\* one alone is compiled.
C19_Witness ==
    \E r \in Compilations :
        /\ OneClause(r, "in")
        /\ r.clauses[1].tokens = << <<"bogus">>, <<" ", "alugado", " ">> >>
        /\ Len(r.parsed) = 1
        /\ r.parsed[1].filter_data = [values |-> << "alugado" >>]

\* The number a token of a distance value spells, in tenths; none for a
\* token that is not a number.
NumberOf(token) ==
    CASE token = <<"0">>        -> {0}
      [] token = <<"1">>        -> {10}
      [] token = <<"-", "1">>   -> {-10}
      [] token = <<"90">>       -> {900}
      [] token = <<"91">>       -> {910}
      [] token = <<"-", "91">>  -> {-910}
      [] token = <<"180">>      -> {1800}
      [] token = <<"181">>      -> {1810}
      [] OTHER                  -> {}

\* lat,lon,radius with the latitude and the longitude in range and a
\* positive radius.
WellFormedDistance(tokens) ==
    /\ Len(tokens) = 3
    /\ \A i \in 1..3 : NumberOf(tokens[i]) # {}
    /\ \A lat \in NumberOf(tokens[1]) : -900 <= lat /\ lat <= 900
    /\ \A lon \in NumberOf(tokens[2]) : -1800 <= lon /\ lon <= 1800
    /\ \A radius \in NumberOf(tokens[3]) : radius > 0

\* C20: a distance clause compiles to a predicate exactly when its value is
\* three numbers lat,lon,radius with -90 <= lat <= 90, -180 <= lon <= 180 and
\* radius > 0; any other value leaves no predicate.
C20_DistanceWellFormed ==
    \A r \in Compilations :
        (/\ OneClause(r, "distance")
         /\ FilterConfigOf(r.table_config, r.clauses[1].column).data_type = "geo") =>
            LET tokens == r.clauses[1].tokens
            IN  IF WellFormedDistance(tokens)
                THEN /\ Len(r.parsed) = 1
                     /\ r.parsed[1].filter_data =
                           [center_lat |-> Float(CHOOSE n \in NumberOf(tokens[1]) : TRUE),
                            center_lon |-> Float(CHOOSE n \in NumberOf(tokens[2]) : TRUE),
                            max_distance |-> Float(CHOOSE n \in NumberOf(tokens[3]) : TRUE)]
                ELSE r.parsed = <<>>

\* The number of characters of a text that are not blanks.
NonSpace(text) == Len(Str(SeqFilter(text, { w \in Range(text) : ~IsBlank(w) })))

\* C21: search_fulltext and search_fulltext_with_filters match in boolean
\* mode with a wildcard exactly when the query text holds at most 3 characters
\* that are not blanks, and in natural-language mode otherwise, blanks inside
\* the text or not.
C21_ModeByNonSpaceLength ==
    \A r \in Compilations :
        \A fn \in {"search_fulltext", "search_fulltext_with_filters"} :
            r.statements[fn].match.mode =
                IF NonSpace(r.query) <= 3 THEN "boolean" ELSE "natural"

\* C22: whatever the schema and the filter string, a compiled distance
\* predicate is of data type geo and carries the latitude and the longitude
\* column of its table, neither missing, and so gives a Haversine condition
\* in the WHERE clause built from the compiled set.
C22_DistanceBoundToColumns ==
    \A r \in Compilations :
        \A i \in 1..Len(r.parsed) :
            r.parsed[i].filter_type = "distance" =>
                /\ r.parsed[i].data_type = "geo"
                /\ r.parsed[i].latitude_column_name # NULL
                /\ r.parsed[i].longitude_column_name # NULL
                /\ \E j \in 1..Len(r.sql.conditions) :
                       /\ r.sql.conditions[j].op = "distance"
                       /\ r.sql.conditions[j].column = r.parsed[i].column

\* The %s placeholders of a statement: one of the MATCH, those of the
\* conditions, one of the LIMIT.
Holes(q) ==
    (IF q.match.mode = "none" THEN 0 ELSE 1) + Placeholders(q.conditions)
    + (IF q.limited THEN 1 ELSE 0)

\* The values a compiled predicate binds.
PredicateParams(entry) ==
    LET d == entry.filter_data
    IN  CASE entry.filter_type = "distance" ->
                << d.center_lat, d.center_lon, d.center_lat, d.max_distance >>
          [] "values" \in DOMAIN d -> d.values
          [] {"min", "max"} \subseteq DOMAIN d -> << d.min, d.max >>
          [] "min" \in DOMAIN d -> << d.min >>
          [] "max" \in DOMAIN d -> << d.max >>
          [] "exact" \in DOMAIN d -> << d.exact >>
          [] OTHER -> << d.value >>

\* The values of the predicates that have a condition in the statement, in
\* compilation order.
RECURSIVE ExpectedParams(_, _)
ExpectedParams(parsed, conditions) ==
    IF parsed = <<>> THEN <<>>
    ELSE (IF \E j \in 1..Len(conditions) : conditions[j].column = Head(parsed).column
          THEN PredicateParams(Head(parsed)) ELSE <<>>)
         \o ExpectedParams(Tail(parsed), conditions)

\* C30: whatever the compiled predicate set, the statements of
\* search_fulltext_with_filters, get_filtered_ids and get_all_with_filters
\* bind as many parameters as they have placeholders, in the order of the
\* placeholders: the query text, the values of each predicate in compilation
\* order, the limit; a predicate without condition binds nothing.
C30_ParamsMatchPlaceholders ==
    \A r \in Compilations :
        \A fn \in {"search_fulltext_with_filters", "get_filtered_ids", "get_all_with_filters"} :
            LET q == r.statements[fn]
            IN  /\ Holes(q) = Len(q.params)
                /\ q.params =
                       (IF q.match.mode = "none" THEN <<>> ELSE << Str(q.match.text) >>)
                       \o ExpectedParams(r.parsed, q.conditions)
                       \o (IF q.limited THEN << MaxTop >> ELSE <<>>)

=============================================================================
